---- MODULE Spec2Model ----
(***************************************************************************)
(* A state-machine model of the LocusZoom plot (src/locuszoom.app.js):     *)
(* state validation, the data resolution pipeline (Requester, Source and   *)
(* its single-slot cache), Plot.applyState with its per-panel and          *)
(* per-layer re-mapping, and the panel interaction handlers (drag, zoom).  *)
(*                                                                         *)
(* Promises (Q) are modelled by the steps at which their callbacks run:    *)
(* a network fetch is the only suspension point, and every callback that   *)
(* follows a response without further I/O runs in the action that          *)
(* delivers the response.                                                  *)
(***************************************************************************)
EXTENDS Integers, Sequences, FiniteSets, TLC

(***************************************************************************)
(* Bounds of the model.                                                    *)
(***************************************************************************)
\* Largest position a caller passes to applyState.
MaxPos == 6
\* applyState operations whose fetch chains may be outstanding at once.
MaxOps == 2
\* layout.min_region_scale / layout.max_region_scale of the modelled plot.
MinRegionScale == 2
MaxRegionScale == 4
\* Half of the panel clip-area width, in pixels (cliparea.width = 2 * HalfWidth).
HalfWidth == 2
\* Bits of the significand of the layout's numbers.
Precision == 8
\* Height of a panel of the standard layout, in pixels (the plot's is twice
\* that).
HalfHeight == 6
\* Most transformations in a field spec, and most rows in a response.
MaxChain == 2
MaxRows == 2
MaxRegions == 2
WideMinScale == 2
WideMaxScale == 22
WideMaxPos == 26
MaxWheels == 3
MaxListed == 2
MaxJoin == 3
MaxJoinPos == 3
MaxAxis == 2
MaxElements == 3
MaxData == 2

(***************************************************************************)
(* The layouts the model draws from.  A plot is constructed with some of   *)
(* these data layers; panel "gwas" takes its x extent from the state (the  *)
(* standard association panel), panel "genes" from its layers.             *)
(*   pv      association p-values joined with LD (sources assoc, then ld)   *)
(*   pos     association positions only (source assoc)                     *)
(*   pval    association p-values only (source assoc)                      *)
(*   ldfirst names the ld field before the association field               *)
(*   genes   the gene track (source gene)                                  *)
(*   both    genes and association positions, two independent sources      *)
(*   track   rows given to the plot as static JSON (source static)         *)
(*   marks   the same rows, drawn on panel "genes"                         *)
(***************************************************************************)
AllPanelIds == <<"gwas", "genes">>
Panels == {"gwas", "genes"}
Layers == {"pv", "pos", "pval", "ldfirst", "genes", "both", "track", "marks"}
Sources == {"assoc", "ld", "gene", "static"}
PanelOf(l) == IF l \in {"genes", "both", "marks"} THEN "genes" ELSE "gwas"

\* A raw field spec "ns:field"; ns = "" when the namespace is omitted.
FS(ns, f) == [ns |-> ns, field |-> f]

LayerFields(l) ==
    CASE l = "pv"      -> <<FS("assoc", "pvalue"), FS("ld", "state"), FS("assoc", "id")>>
      [] l = "pos"     -> <<FS("assoc", "position")>>
      [] l = "pval"    -> <<FS("assoc", "pvalue")>>
      [] l = "ldfirst" -> <<FS("ld", "state"), FS("assoc", "pvalue")>>
      [] l = "genes"   -> <<FS("gene", "gene")>>
      [] l = "both"    -> <<FS("gene", "gene"), FS("assoc", "position")>>
      [] l = "track"   -> <<FS("static", "position")>>
      [] l = "marks"   -> <<FS("static", "position")>>

(***************************************************************************)
(* LocusZoom.validateState                                                 *)
(* A raw coordinate, as a caller may pass it, is [nan |-> TRUE, ...] for   *)
(* anything parseInt cannot read, or [nan |-> FALSE, half |-> h] for the   *)
(* number h/2.  Validated coordinates are integers.                        *)
(***************************************************************************)
Num(i) == [nan |-> FALSE, half |-> 2 * i]
NotANumber == [nan |-> TRUE, half |-> 0]

\* parseInt of a number: truncation towards zero.
ParseInt(h) == IF h >= 0 THEN h \div 2 ELSE -((-h) \div 2)

\* Math.max(parseInt(v), 1)
MaxParseInt(v) == IF ParseInt(v.half) > 1 THEN ParseInt(v.half) ELSE 1

\* A variant of ClampStart without the Math.max(..., 1).
ClampStartUnbounded(mid2, scale) == mid2 - 2 * (scale \div 2)

\* Math.max(mid - Math.floor(scale / 2), 1), in halves; mid2 is twice the
\* attempted midpoint (the midpoint is 0.5 when both coordinates are NaN).
ClampStart(mid2, scale) ==
    LET twice == mid2 - 2 * (scale \div 2)
    IN  IF twice < 2 THEN 2 ELSE twice

\* Lines 305-331: start, end, twice the attempted midpoint, attempted scale.
ResolveRegion(raw) ==
    IF raw.start.nan /\ raw.end.nan
    THEN [start |-> 1, end |-> 1, mid2 |-> 1, scale |-> 0]
    ELSE IF raw.start.nan \/ raw.end.nan
    THEN LET v == IF raw.start.nan THEN MaxParseInt(raw.end)
                  ELSE MaxParseInt(raw.start)
         IN  [start |-> v, end |-> v, mid2 |-> 2 * v, scale |-> 0]
    ELSE LET s0  == MaxParseInt(raw.start)
             e0  == MaxParseInt(raw.end)
             mid == (s0 + e0 + 1) \div 2          \* Math.round((s0 + e0) / 2)
         IN  IF mid < 0
             THEN [start |-> 1, end |-> 1, mid2 |-> 2 * mid, scale |-> 0]
             ELSE IF e0 - s0 < 0
             \* var temp = start; end = start; start = temp;
             THEN [start |-> s0, end |-> s0, mid2 |-> 2 * mid, scale |-> 0]
             ELSE [start |-> s0, end |-> e0, mid2 |-> 2 * mid, scale |-> e0 - s0]

\* A variant of ConstrainRegion whose first branch ends the region
\* maxScale positions after its start.
ConstrainRegionCopied(r, minScale, maxScale) ==
    IF r.scale < minScale \/ r.scale > maxScale
    THEN [start2 |-> ClampStart(r.mid2, maxScale),
          end2 |-> ClampStart(r.mid2, maxScale) + 2 * maxScale]
    ELSE [start2 |-> 2 * r.start, end2 |-> 2 * r.end]

\* Lines 335-345: the layout's minimum and maximum region scale.  The
\* result is in halves.
ConstrainRegion(r, minScale, maxScale) ==
    LET a == IF r.scale < minScale
             THEN [start2 |-> ClampStart(r.mid2, minScale),
                   end2 |-> ClampStart(r.mid2, minScale) + 2 * minScale]
             ELSE [start2 |-> 2 * r.start, end2 |-> 2 * r.end]
    IN  IF r.scale > maxScale
        THEN [start2 |-> ClampStart(r.mid2, maxScale),
              end2 |-> ClampStart(r.mid2, maxScale) + 2 * maxScale]
        ELSE a

\* validateState on a state that has chr, start and end.  whole records
\* that both coordinates came out as whole numbers.
validateState(raw) ==
    LET c == ConstrainRegion(ResolveRegion(raw), MinRegionScale, MaxRegionScale)
    IN  [start |-> c.start2 \div 2, end |-> c.end2 \div 2,
         whole |-> c.start2 % 2 = 0 /\ c.end2 % 2 = 0]

\* LocusZoom.validateState(new_state, layout) for any new_state: chr,
\* start and end may be missing (has_...), and the layout sets both region
\* scales (limits) or neither.  The result gives start and end as raw
\* coordinates, in halves.
validateStateOf(new_state, limits) ==
    IF ~(new_state.has_chr /\ new_state.has_start /\ new_state.has_end)
    THEN [start |-> new_state.start, end |-> new_state.end]
    ELSE LET r == ResolveRegion(new_state)
             c == IF limits
                  THEN ConstrainRegion(r, MinRegionScale, MaxRegionScale)
                  ELSE [start2 |-> 2 * r.start, end2 |-> 2 * r.end]
         IN  [start |-> [nan |-> FALSE, half |-> c.start2],
              end |-> [nan |-> FALSE, half |-> c.end2]]

(***************************************************************************)
(* LocusZoom.Data.Requester and LocusZoom.Data.Source                      *)
(***************************************************************************)
\* parts[1] || "base"
NsOf(fs) == IF fs.ns = "" THEN "base" ELSE fs.ns

RECURSIVE GroupNs(_, _)
\* The keys of split_requests' result: the namespaces of the fields, each at
\* the place where it first occurs.
GroupNs(fields, acc) ==
    IF fields = <<>> THEN acc
    ELSE LET ns == NsOf(Head(fields))
         IN  GroupNs(Tail(fields),
                     IF \E i \in DOMAIN acc : acc[i] = ns THEN acc
                     ELSE Append(acc, ns))

RECURSIVE FieldsOf(_, _)
\* requests[ns].fields, in the order the fields were given.
FieldsOf(fields, ns) ==
    IF fields = <<>> THEN <<>>
    ELSE IF NsOf(Head(fields)) = ns
         THEN <<Head(fields).field>> \o FieldsOf(Tail(fields), ns)
         ELSE FieldsOf(Tail(fields), ns)

\* split_requests: one request per namespace, in Object.keys order.
split_requests(fields) ==
    LET keys == GroupNs(fields, <<>>)
    IN  [i \in DOMAIN keys |-> [ns |-> keys[i], fields |-> FieldsOf(fields, keys[i])]]

\* AssociationSource.preGetData puts the id field and "position" in front
\* of the requested fields when they are missing (the array is changed in
\* place); the other sources leave the fields alone.
Has(fields, f) == \E i \in DOMAIN fields : fields[i] = f
preGetData(ns, fields) ==
    IF ns # "assoc" THEN fields
    ELSE LET f1 == IF Has(fields, "id") THEN fields ELSE <<"id">> \o fields
         IN  IF Has(f1, "position") THEN f1 ELSE <<"position">> \o f1

\* The chain a resolution starts from: Q.when({header:{}, body:{}}).
EmptyChain == [header |-> <<>>, body |-> <<>>]

NoKey == <<>>

\* LDSource.getURL picks the reference variant from the chain's rows and
\* throws when the chain has no rows with a p-value column and an id column
\* (field "pvalue" stands for the column findMergeFields recognises).
LDCanBuildURL(chain) ==
    /\ chain.body # <<>>
    /\ Has(Head(chain.body).fields, "pvalue")
    /\ Has(Head(chain.body).fields, "id")

\* A variant of getURL that builds the LD query from the state alone.
getURLOfState(ns, st, chain) == <<ns, st.start, st.end>>

\* getURL of the three sources, as the tuple of what the URL is built from:
\* the region of the state and, for LD, the reference variant.
getURL(ns, st, chain) ==
    IF ns = "ld"
    THEN <<ns, st.start, st.end, Head(chain.body).key>>
    ELSE <<ns, st.start, st.end>>

\* Source.getCacheKey
getCacheKey(ns, st, chain) == getURL(ns, st, chain)

\* this.enableCache, set by the Source constructor.
enableCache(ns) == TRUE

NoResponse == [key |-> NoKey, good |-> TRUE]
NoCache == [has |-> FALSE, key |-> NoKey, resp |-> NoResponse]

\* StaticSource.getRequest hands out the data the source was made with.
IsStatic(ns) == ns = "static"
StaticData == [key |-> <<"static">>, good |-> TRUE]

\* A variant of CacheHit that never finds the key in the slot.
CacheNever(ns, slot, key) == FALSE

\* The test of getRequest: answer from the cache slot, no I/O.
CacheHit(ns, slot, key) == enableCache(ns) /\ slot.has /\ key = slot.key

\* A variant of StoreCache that keeps the entry the slot already holds.
StoreCacheKeepFirst(ns, slot, key, resp) ==
    IF enableCache(ns) /\ ~slot.has
    THEN [has |-> TRUE, key |-> key, resp |-> resp] ELSE slot

\* A variant of StoreCache that replaces the key and keeps the response the
\* slot already holds.
StoreCacheKeyOnly(ns, slot, key, resp) ==
    IF enableCache(ns)
    THEN [has |-> TRUE, key |-> key, resp |-> IF slot.has THEN slot.resp ELSE resp]
    ELSE slot

\* The then-callback of getRequest: _cachedKey and _cachedResponse.
StoreCache(ns, slot, key, resp) ==
    IF enableCache(ns) THEN [has |-> TRUE, key |-> key, resp |-> resp] ELSE slot

\* parseResponse.  A response names the request it answers and whether it
\* parses (it is well-formed and holds every requested field); the rows
\* made from it are identified by the source, the response and the fields
\* they carry.  The base source replaces the body with rows of the requested
\* fields, the gene source with the response's rows as they are; the LD
\* source joins its column onto the rows of the chain it was given and
\* returns that chain, whose header getURL has marked with the variant.
ParseOK(resp) == resp.good
Records(ns, resp, fields) ==
    [ns |-> ns, key |-> resp.key, fields |-> IF ns = "gene" THEN <<>> ELSE fields]
parseResponse(ns, resp, chain, fields) ==
    IF ns = "ld"
    THEN [header |-> <<Head(chain.body).key>>,
          body |-> Append(chain.body, Records(ns, resp, fields))]
    ELSE [header |-> chain.header, body |-> <<Records(ns, resp, fields)>>]

(***************************************************************************)
(* LocusZoom.TransformationFunctions and the parsers of the base source,   *)
(* value by value.  A value is undefined, a number or a string; it is      *)
(* told apart by the raw value it was made of (row and field of the        *)
(* response) and the transformations applied to that, in order.            *)
(***************************************************************************)
\* The transformations the library registers, and a name it does not know.
Registered == {"neglog10", "scinotation"}
TransNames == Registered \cup {"bogus"}

Undefined == [type |-> "undefined", of |-> <<>>, by |-> <<>>]
RawValue(i, f) == [type |-> "number", of |-> <<i, f>>, by |-> <<>>]

NoError == [kind |-> "", name |-> "", outname |-> <<>>]
Returned(v) == [ok |-> TRUE, val |-> v, error |-> NoError]
Thrown(kind, name, outname) ==
    [ok |-> FALSE, val |-> Undefined,
     error |-> [kind |-> kind, name |-> name, outname |-> outname]]

\* The two registered functions.  neglog10 computes with whatever it is
\* given (NaN for undefined); scinotation calls toFixed / toExponential on
\* its argument, which only a number has.
ApplyTrans(name, val) ==
    IF name = "neglog10"
    THEN Returned([type |-> "number", of |-> val.of, by |-> Append(val.by, name)])
    ELSE IF val.type = "number"
    THEN Returned([type |-> "string", of |-> val.of, by |-> Append(val.by, name)])
    ELSE Thrown("TypeError", name, <<>>)

\* getTrans(name)
getTrans(name) ==
    IF name \in Registered THEN Returned([kind |-> "fn", names |-> <<name>>])
    ELSE Thrown("transformation not found", name, <<>>)

\* TransformationFunctions.get of the transformations of a field spec (the
\* names after the pipes): null for none, the function itself for one, a
\* closure over the names for more.
TransformationFunctions_get(names) ==
    IF names = <<>> THEN Returned([kind |-> "null", names |-> <<>>])
    ELSE IF Len(names) = 1 THEN getTrans(names[1])
    ELSE Returned([kind |-> "chain", names |-> names])

\* A variant of RunChain that applies the last transformation first.
RECURSIVE RunChainReversed(_, _)
RunChainReversed(names, val) ==
    IF names = <<>> THEN Returned(val)
    ELSE IF ~getTrans(names[Len(names)]).ok THEN getTrans(names[Len(names)])
    ELSE LET r == ApplyTrans(names[Len(names)], val)
         IN  IF r.ok THEN RunChainReversed(SubSeq(names, 1, Len(names) - 1), r.val)
             ELSE r

\* The closure's loop: val = parseTrans(funs[i])(val).
RECURSIVE RunChain(_, _)
RunChain(names, val) ==
    IF names = <<>> THEN Returned(val)
    ELSE IF ~getTrans(Head(names)).ok THEN getTrans(Head(names))
    ELSE LET r == ApplyTrans(Head(names), val)
         IN  IF r.ok THEN RunChain(Tail(names), r.val) ELSE r

\* if (trans && trans[j]) { val = trans[j](val); }
RunTrans(trans, val) ==
    IF trans.kind = "null" THEN Returned(val)
    ELSE IF trans.kind = "fn" THEN ApplyTrans(trans.names[1], val)
    ELSE RunChain(trans.names, val)

\* split_requests for the fields of one namespace: the transformation of
\* every field is looked up, in order; the first lookup that throws ends it.
RECURSIVE SplitTrans(_, _)
SplitTrans(specs, acc) ==
    IF specs = <<>> THEN [ok |-> TRUE, trans |-> acc, error |-> NoError]
    ELSE LET t == TransformationFunctions_get(Head(specs).trans)
         IN  IF t.ok THEN SplitTrans(Tail(specs), Append(acc, t.val))
             ELSE [ok |-> FALSE, trans |-> <<>>, error |-> t.error]

\* A response is an array of objects (rows: each a function from the fields
\* it holds to values) or an object of arrays (keys: the fields in key
\* order; n: the length of every array).
\* x[i][f] and x[f][i].
ValueAt(resp, i, f) ==
    IF resp.arrays
    THEN (IF (\E k \in DOMAIN resp.keys : resp.keys[k] = f) /\ i <= resp.n
          THEN RawValue(i, f) ELSE Undefined)
    ELSE (IF f \in resp.rows[i] THEN RawValue(i, f) ELSE Undefined)

\* One record: the fields j..Len(specs) of row i, each transformed.
RECURSIVE ParseRecord(_, _, _, _, _, _)
ParseRecord(resp, specs, trans, i, j, rec) ==
    IF j > Len(specs) THEN [ok |-> TRUE, rec |-> rec, error |-> NoError]
    ELSE LET r == RunTrans(trans[j], ValueAt(resp, i, specs[j].field))
         IN  IF r.ok
             THEN ParseRecord(resp, specs, trans, i, j + 1, Append(rec, r.val))
             ELSE [ok |-> FALSE, rec |-> <<>>, error |-> r.error]

\* The rows i..n, one record each.
RECURSIVE ParseRows(_, _, _, _, _, _)
ParseRows(resp, specs, trans, i, n, records) ==
    IF i > n THEN [ok |-> TRUE, records |-> records, error |-> NoError]
    ELSE LET r == ParseRecord(resp, specs, trans, i, 1, <<>>)
         IN  IF r.ok
             THEN ParseRows(resp, specs, trans, i + 1, n, Append(records, r.rec))
             ELSE [ok |-> FALSE, records |-> <<>>, error |-> r.error]

\* "field " + f + " not found in response for " + outname; the output name
\* of a field is its field spec.
FieldNotFound(spec) ==
    [ok |-> FALSE, records |-> <<>>,
     error |-> [kind |-> "field not found", name |-> spec.field, outname |-> spec]]

\* parseObjectsToObjects: the records are made first, then the first field
\* that no row held is reported.
parseObjectsToObjects(resp, specs, trans) ==
    LET r       == ParseRows(resp, specs, trans, 1, Len(resp.rows), <<>>)
        unfound == {j \in DOMAIN specs :
                       \A i \in DOMAIN resp.rows : specs[j].field \notin resp.rows[i]}
    IN  IF ~r.ok THEN r
        ELSE IF unfound # {}
        THEN FieldNotFound(specs[CHOOSE j \in unfound : \A k \in unfound : j <= k])
        ELSE r

\* parseArraysToObjects: the first field that is no key of the response is
\* reported before any record is made; the number of records is the length
\* of the array at the second key.
parseArraysToObjects(resp, specs, trans) ==
    LET missing == {j \in DOMAIN specs :
                       \A k \in DOMAIN resp.keys : resp.keys[k] # specs[j].field}
    IN  IF missing # {}
        THEN FieldNotFound(specs[CHOOSE j \in missing : \A k \in missing : j <= k])
        ELSE IF Len(resp.keys) < 2
        THEN [ok |-> FALSE, records |-> <<>>,
              error |-> [kind |-> "TypeError", name |-> "length", outname |-> <<>>]]
        ELSE ParseRows(resp, specs, trans, 1, resp.n, <<>>)

\* parseData
parseData(resp, specs, trans) ==
    IF resp.arrays THEN parseArraysToObjects(resp, specs, trans)
    ELSE parseObjectsToObjects(resp, specs, trans)

\* A field spec "field|t1|...|tn" without a namespace.
FT(f, names) == [ns |-> "", field |-> f, trans |-> names]

\* No response.
NoData == [arrays |-> FALSE, rows |-> <<>>, keys |-> <<>>, n |-> 0]

\* No resolution was started with lzd.getData, and its source has nothing
\* cached.
NoResolution ==
    [phase |-> "idle", specs |-> <<>>, trans |-> <<>>, fetched |-> FALSE,
     response |-> NoData, records |-> <<>>, error |-> NoError,
     cache |-> [has |-> FALSE, key |-> <<>>, resp |-> NoData]]

\* The then-callback of getData: parseResponse on the response, which
\* resolves the promise with the records or rejects it with what was thrown.
Parse(r, resp) ==
    LET p == parseData(resp, r.specs, r.trans)
    IN  [r EXCEPT !.phase = IF p.ok THEN "resolved" ELSE "rejected",
                  !.response = resp,
                  !.records = p.records,
                  !.error = p.error]

\* lzd.getData(state, fields) for fields of the base source: split_requests
\* throws or the resolution starts; the source answers from its cache slot
\* or fetches.
Requester_getData(r, st, specs) ==
    LET sp  == SplitTrans(specs, <<>>)
        key == <<st.start, st.end>>
        r1  == [r EXCEPT !.specs = specs, !.trans = sp.trans, !.fetched = FALSE,
                         !.response = NoData, !.records = <<>>, !.error = sp.error]
    IN  IF ~sp.ok THEN [r1 EXCEPT !.phase = "threw"]
        ELSE IF r.cache.has /\ r.cache.key = key THEN Parse(r1, r.cache.resp)
        ELSE [r1 EXCEPT !.phase = "fetching", !.fetched = TRUE]

\* The fetch is answered: the response is cached, then parsed.
Requester_response(r, st, resp) ==
    Parse([r EXCEPT !.cache = [has |-> TRUE, key |-> <<st.start, st.end>>,
                               resp |-> resp]], resp)

(***************************************************************************)
(* LocusZoom.DataSources, its sources as objects, toJSON and fromJSON.     *)
(* A source object has the SOURCE_NAME of its constructor, what it was     *)
(* constructed with (url and params, or the data of a static source), the  *)
(* enableCache of its prototype and its cache slot.                        *)
(***************************************************************************)
SOURCE_NAME(ns) ==
    CASE ns = "assoc"  -> "AssociationLZ"
      [] ns = "ld"     -> "LDLZ"
      [] ns = "gene"   -> "GeneLZ"
      [] ns = "static" -> "StaticJSON"

\* The namespace whose source type has this name.
KnownDataSources_get(name) == CHOOSE ns \in Sources : SOURCE_NAME(ns) = name

\* What the plot's source of a namespace was constructed with.
SourceInit(ns) ==
    IF IsStatic(ns) THEN [url |-> "", params |-> <<>>, data |-> StaticData]
    ELSE [url |-> ns, params |-> <<>>, data |-> NoResponse]

\* The plot's source of a namespace, with the cache slot it has now.
SourceOf(ns, slot) ==
    [type |-> SOURCE_NAME(ns), init |-> SourceInit(ns),
     enableCache |-> enableCache(ns), slot |-> slot]

\* Source.toJSON and StaticSource.toJSON: [SOURCE_NAME, {url, params}] and
\* [SOURCE_NAME, data].
Source_toJSON(src) ==
    IF src.type = "StaticJSON" THEN <<src.type, [data |-> src.init.data]>>
    ELSE <<src.type, [url |-> src.init.url, params |-> src.init.params]>>

\* A variant of KnownDataSources_create that makes a gene source of
\* everything.
KnownDataSources_createGene(json) ==
    [type |-> "GeneLZ",
     init |-> [url |-> "gene", params |-> <<>>, data |-> NoResponse],
     enableCache |-> TRUE, slot |-> NoCache]

\* KnownDataSources.create(name, init): a new object of the named type; the
\* static source keeps its argument as _data, the others run parseInit.
KnownDataSources_create(json) ==
    [type |-> json[1],
     init |-> IF json[1] = "StaticJSON"
              THEN [url |-> "", params |-> <<>>, data |-> json[2].data]
              ELSE [url |-> json[2].url, params |-> json[2].params,
                    data |-> NoResponse],
     enableCache |-> TRUE, slot |-> NoCache]

\* JSON.stringify(DataSources) (toJSON returns the sources, each written by
\* its own toJSON), then new DataSources().fromJSON(text).
DataSources_toJSON(srcs) == [ns \in DOMAIN srcs |-> Source_toJSON(srcs[ns])]
DataSources_fromJSON(json) == [ns \in DOMAIN json |-> KnownDataSources_create(json[ns])]

\* The query a source object builds: getURL of its type on its url.
SourceQuery(src, st, chain) ==
    <<src.init.url>> \o Tail(getURL(KnownDataSources_get(src.type), st, chain))

\* getRequest of a source object whose fetch is answered at once: whether
\* it answered from its cache slot, the key, and the object afterwards.  A
\* static source answers with its data.
SourceRequest(src, st, chain) ==
    LET key  == SourceQuery(src, st, chain)
        ns   == KnownDataSources_get(src.type)
        hit  == ~IsStatic(ns) /\ src.enableCache /\ CacheHit(ns, src.slot, key)
        resp == [key |-> key, good |-> TRUE]
    IN  [hit |-> hit, key |-> key,
         src |-> IF hit \/ IsStatic(ns) \/ ~src.enableCache THEN src
                 ELSE [src EXCEPT !.slot = StoreCache(ns, @, key, resp)]]

\* No call was given to both collections.
NoSeen == [given |-> FALSE, ns |-> "", hit |-> FALSE, key |-> NoKey,
           hit2 |-> FALSE, key2 |-> NoKey]

\* No collection was made with fromJSON.
NotRestored ==
    [made |-> FALSE, src |-> [ns \in Sources |-> SourceOf(ns, NoCache)],
     cold |-> [ns \in Sources |-> FALSE], seen |-> NoSeen]

(***************************************************************************)
(* LDSource.parseResponse: the merge of the LD response into the chain's   *)
(* body.  A body row is its position and its LD value, 0 for none; the LD   *)
(* response is its column position2, and the value of its column rsquare   *)
(* at index j is written j.                                                *)
(***************************************************************************)
\* leftJoin(chain.body, json.data, reqFields.ldout, "rsquare") from the
\* indexes i and j on.
RECURSIVE leftJoin(_, _, _, _)
leftJoin(left, right, i, j) ==
    IF i > Len(left) \/ j > Len(right) THEN left
    ELSE IF left[i].pos = right[j]
    THEN leftJoin([left EXCEPT ![i].ld = j], right, i + 1, j + 1)
    ELSE IF left[i].pos < right[j]
    THEN leftJoin(left, right, i + 1, j)
    ELSE leftJoin(left, right, i, j + 1)

\* The sequences of up to n positions in ascending order (equal positions
\* may follow each other: two variants at one position).
RECURSIVE Ascending(_)
Ascending(n) ==
    IF n = 0 THEN {<<>>}
    ELSE Ascending(n - 1) \cup
         UNION {{Append(q, p) : p \in {x \in 1 .. MaxJoinPos :
                                          q = <<>> \/ q[Len(q)] <= x}} :
                q \in {x \in Ascending(n - 1) : Len(x) = n - 1}}

\* No merge.
NoJoin == [given |-> FALSE, left |-> <<>>, right |-> <<>>, body |-> <<>>]

(***************************************************************************)
(* LocusZoom.DataLayer.prototype.getAxisExtent with a data-derived extent.  *)
(* A number of the axis layout that is not set (isNaN) is <<>>, a set one   *)
(* <<v>>; the buffers are whole multiples of the span.                     *)
(***************************************************************************)
\* d3.extent of a set of numbers.
d3_extent(vals) ==
    <<CHOOSE v \in vals : \A u \in vals : v <= u,
      CHOOSE v \in vals : \A u \in vals : v >= u>>

\* The numbers of a sequence.
Range(q) == {q[i] : i \in DOMAIN q}

\* getAxisExtent(dimension) of a layer with the axis layout lay and the data
\* vals (the axis field's value of each datum), on a plot in state st.
DataLayer_getAxisExtent(lay, vals, dimension, st) ==
    IF lay.floor # <<>> /\ lay.ceiling # <<>>
    THEN <<lay.floor[1], lay.ceiling[1]>>
    ELSE IF lay.field /\ vals # <<>>
    THEN LET extent == d3_extent(Range(vals))
             original_extent_span == extent[2] - extent[1]
             pushed ==
                 {extent[1], extent[2]}
                 \cup (IF lay.lower_buffer # <<>>
                       THEN {extent[1] - original_extent_span * lay.lower_buffer[1]}
                       ELSE {})
                 \cup (IF lay.upper_buffer # <<>>
                       THEN {extent[2] + original_extent_span * lay.upper_buffer[1]}
                       ELSE {})
                 \cup Range(lay.min_extent)
             base == d3_extent(pushed)
         IN  <<IF lay.floor # <<>> THEN lay.floor[1] ELSE base[1],
               IF lay.ceiling # <<>> THEN lay.ceiling[1] ELSE base[2]>>
    ELSE IF dimension = "x" THEN <<st.start, st.end>>
    ELSE <<>>

\* No call of getAxisExtent.
NoAxis ==
    [called |-> FALSE, dimension |-> "x", vals |-> <<>>, extent |-> <<>>,
     layout |-> [floor |-> <<>>, ceiling |-> <<>>, lower_buffer |-> <<>>,
                 upper_buffer |-> <<>>, min_extent |-> <<>>, field |-> FALSE]]

\* The values an axis layout may have and the data a layer may hold.
MaybeNumber == {<<>>} \cup {<<v>> : v \in 0 .. MaxAxis}
Buffers == {<<>>, <<1>>}
MinExtents == {<<>>, <<0, MaxAxis>>, <<1, 2>>}
AxisLayouts ==
    [floor : MaybeNumber, ceiling : MaybeNumber, lower_buffer : Buffers,
     upper_buffer : Buffers, min_extent : MinExtents, field : BOOLEAN]
AxisData == UNION {[1 .. n -> 0 .. MaxAxis] : n \in 0 .. MaxData}

(***************************************************************************)
(* LocusZoom.DataLayer.prototype.applyStatusBehavior, setElementStatus and *)
(* setAllElementStatus on the list state[state_id][status] of a layer whose *)
(* elements have the ids Elements; drawn are the elements of the layer's   *)
(* data, which the DOM holds.                                              *)
(***************************************************************************)
Elements == 1 .. MaxElements

\* arr.splice(arr.indexOf(x), 1) for an array that holds x.
RemoveFirst(arr, x) ==
    LET i == CHOOSE k \in DOMAIN arr : arr[k] = x /\ \A j \in 1 .. k - 1 : arr[j] # x
    IN  SubSeq(arr, 1, i - 1) \o SubSeq(arr, i + 1, Len(arr))

\* setElementStatus(status, element, toggle): the element's id is pushed
\* where the list lacks it, or spliced out where the list holds it.
setElementStatusIn(list, id, toggle) ==
    IF toggle /\ id \notin Range(list) THEN Append(list, id)
    ELSE IF ~toggle /\ id \in Range(list) THEN RemoveFirst(list, id)
    ELSE list

\* The loop of setAllElementStatus(status, false) over a copy of the list:
\* an id whose element getElementById finds is taken off the list, an id
\* without an element in the DOM is skipped.
RECURSIVE setAllOff(_, _, _)
setAllOff(list, status_ids, drawn) ==
    IF status_ids = <<>> THEN list
    ELSE setAllOff(IF Head(status_ids) \in drawn
                   THEN setElementStatusIn(list, Head(status_ids), FALSE)
                   ELSE list,
                   Tail(status_ids), drawn)

\* setAllElementStatus(status, toggle).
setAllElementStatus(list, drawn, toggle) ==
    IF toggle
    THEN list \o SelectSeq([i \in 1 .. MaxElements |-> i],
                           LAMBDA e : e \in drawn /\ e \notin Range(list))
    ELSE setAllOff(list, list, drawn)

\* handleElementStatusEvent for an event whose directive is given: the new
\* status of the element and the list after the event.
handleElementStatusEvent(list, drawn, element, directive) ==
    LET status_boolean ==
            CASE directive = "on" -> TRUE
              [] directive = "off" -> FALSE
              [] OTHER -> element \notin Range(list)
        cleared == IF status_boolean /\ directive = "toggle_exclusive"
                   THEN setAllElementStatus(list, drawn, FALSE)
                   ELSE list
    IN  [on |-> status_boolean,
         list |-> setElementStatusIn(cleared, element, status_boolean)]

\* No element is selected, every element is drawn, no event yet.
NoSelection ==
    [list |-> <<>>, drawn |-> Elements, element |-> 0, directive |-> "",
     on |-> FALSE, before |-> <<>>]

\* No wheel zoom on a plot with wide region scales.
NoGesture == [region |-> <<>>, x_extent |-> <<>>, wheels |-> 0]

(***************************************************************************)
(* The state of the plot.                                                  *)
(***************************************************************************)
VARIABLES
    state,          \* plot.state: start, end, whether both are whole (chr is fixed)
    loading_data,   \* plot.loading_data
    ops,            \* the applyState operations whose promises are outstanding
    cache,          \* per source: _cachedKey / _cachedResponse
    data,           \* per data layer: layer.data (the body last delivered)
    xaxis,          \* per data layer: layout.x_axis floor / ceiling
    yaxis,          \* per data layer: layout.y_axis floor / ceiling
    panels,         \* per panel: x_extent, x_scale, y1_extent
    interactions,   \* the interaction objects, by the panel that created them
    iref,           \* per panel: which interaction object panel.interactions is
    zoom_timeout,   \* per panel: a zoom timeout is pending
    x_linked,       \* per panel: layout.interaction.x_linked (fixed at construction)
    y1_linked,      \* per panel: layout.interaction.y1_linked (fixed at construction)
    present,        \* the data layers the plot was constructed with
    lastcall,       \* per source: the getData call that completed last and the
                    \* key of the fetch that was issued last
    layout,         \* plot.layout: height, the panels' keys and y order, and
                    \* per panel its layout's height, origin.y, proportional_height
    substate,       \* plot.state's sub-namespaces, per panel and per data layer
    lzd,            \* a resolution a caller started with lzd.getData: the field
                    \* specs, their transformations, the records or the error,
                    \* and the cache slot of its source
    restored,       \* a DataSources collection made with fromJSON from the
                    \* JSON text of the plot's, and the calls both were given
    gesture,        \* a wheel zoom on a panel of a plot with wide region
                    \* scales: the state's region, the panel's x extent, the
                    \* wheel events since the last commit
    joined,         \* an association body and an LD response given to the LD
                    \* source's parseResponse, and the body after the merge
    extent_call,    \* the layout of an axis and the data a data layer's getAxisExtent
                    \* was called with, and the extent it returned
    y_index,        \* each panel's layout.y_index (0 for a panel that is not there)
    selection,      \* a data layer's list of selected element ids in the state, the elements
                    \* drawn, and the last status event on an element
    last            \* what the last handler did (observation only)

vars == <<state, loading_data, ops, cache, data, xaxis, yaxis, panels,
          interactions, iref, zoom_timeout, x_linked, y1_linked, present,
          lastcall, layout, substate, lzd, restored, gesture, joined,
          extent_call,
          y_index,
          selection, last>>

\* The mutable world a handler works on, threaded through the calls it makes.
World ==
    [state |-> state, loading_data |-> loading_data, ops |-> ops,
     cache |-> cache, data |-> data, xaxis |-> xaxis, yaxis |-> yaxis,
     panels |-> panels, interactions |-> interactions, iref |-> iref,
     zoom_timeout |-> zoom_timeout, x_linked |-> x_linked,
     y1_linked |-> y1_linked,
     present |-> present, lastcall |-> lastcall, layout |-> layout,
     substate |-> substate, lzd |-> lzd,
     restored |-> restored, gesture |-> gesture, joined |-> joined,
     extent_call |-> extent_call,
     y_index |-> y_index,
     selection |-> selection,
     last |-> last]

Becomes(w) ==
    /\ state' = w.state
    /\ loading_data' = w.loading_data
    /\ ops' = w.ops
    /\ cache' = w.cache
    /\ data' = w.data
    /\ xaxis' = w.xaxis
    /\ yaxis' = w.yaxis
    /\ panels' = w.panels
    /\ interactions' = w.interactions
    /\ iref' = w.iref
    /\ zoom_timeout' = w.zoom_timeout
    /\ x_linked' = w.x_linked
    /\ y1_linked' = w.y1_linked
    /\ present' = w.present
    /\ lastcall' = w.lastcall
    /\ layout' = w.layout
    /\ substate' = w.substate
    /\ lzd' = w.lzd
    /\ restored' = w.restored
    /\ gesture' = w.gesture
    /\ joined' = w.joined
    /\ extent_call' = w.extent_call
    /\ y_index' = w.y_index
    /\ selection' = w.selection
    /\ last' = w.last

OpIds == 1 .. MaxOps

\* The panels of the plot (each has at least one data layer),
\* plot.panel_ids_by_y_index and a panel's data layers.
PanelsOf(w) == {PanelOf(l) : l \in w.present}
panel_ids_by_y_index(w) == w.layout.order
data_layers(w, p) == {l \in w.present : PanelOf(l) = p}

\* Requester.getData: the requests of a layer's fields, each with the
\* fields its source's getData was given.
Reqs(l) ==
    LET rq == split_requests(LayerFields(l))
    IN  [i \in DOMAIN rq |->
            [ns |-> rq[i].ns, fields |-> preGetData(rq[i].ns, rq[i].fields)]]

\* One resolution (one Requester.getData promise chain) of a data layer:
\*   phase  "run" while it is pending, then "ok" or "err"
\*   done   how many sources have delivered their chain
\*   asked  the sources (by position) whose function has been called
\*   fly    the fetches in flight: source, cache key, the chain it was given
\*   chain  the value of the promise chain so far
\*   calls  the source calls made, each with the chain it was given
\*   outs   the chains the sources delivered
NoChain == [phase |-> "none", done |-> 0, asked |-> {}, fly |-> {},
            chain |-> EmptyChain, calls |-> <<>>, outs |-> <<>>]
StartChain == [NoChain EXCEPT !.phase = "run"]
\* A chain that has resolved ("ok") or rejected ("err"): nothing of it is
\* referenced any more.
Ended(how) == [NoChain EXCEPT !.phase = how]
NoOp == [active |-> FALSE, done |-> FALSE,
         ch |-> [l \in Layers |-> NoChain],
         pst |-> [p \in Panels |-> "none"]]

NoDrag == [on |-> FALSE, method |-> "", panel_id |-> "", start_x |-> 0,
           start_y |-> 0, dragged_x |-> 0, dragged_y |-> 0]
NoZoom == [on |-> FALSE, scale |-> 0, center |-> 0]
NoPanel == [x_extent |-> <<>>, x_scale |-> <<>>, y1_extent |-> <<>>]

\* What the handler that ran last did (observation only):
\*   event, updates, returned   the handler, the applyState calls it made and
\*                              what applyState returned to it
\*   committed  panels that had a displaced background drag at pointer-up
\*   bcast      per panel: the render(true) calls it received (counted where
\*              the history is kept)
\*   settled, completion, failed, rendered, fresh
\*              an applyState's promise settled in this step: how, and which
\*              panels failed / rendered and which layers got data in it
\*   wrote, over  the layer whose data was stored, and the data it replaced
\*   emitted    the data_requested and data_rendered events emitted in this
\*              step, each with the plot or panel that emitted it, in order
\*   ended      the resolution that ended in this step
\*   call       the source call that started in this step
\*   resp       the fetch that was answered in this step
NoEnded == [layer |-> "", how |-> "", at |-> 0, asked |-> {}, fly |-> {}]
NoCall == [ns |-> "", key |-> NoKey, hit |-> FALSE, after |-> FALSE,
           prev |-> [on |-> FALSE, key |-> NoKey, got |-> FALSE, fields |-> <<>>,
                     input |-> EmptyChain, resp |-> NoResponse, issued |-> NoKey],
           fields |-> <<>>, input |-> EmptyChain, resp |-> NoResponse]
NoResp == [ns |-> "", key |-> NoKey, ok |-> FALSE, before |-> NoCache]
\* No region passed to applyState is on record.
NoRaw == [start |-> NotANumber, end |-> NotANumber, given |-> FALSE]
\* No call of validateState by a caller is on record.
NoValidated ==
    [given |-> FALSE, limits |-> FALSE,
     input |-> [has_chr |-> FALSE, has_start |-> FALSE, has_end |-> FALSE,
                start |-> NotANumber, end |-> NotANumber],
     output |-> [start |-> NotANumber, end |-> NotANumber]]
Quiet(ev) ==
    [event |-> ev, updates |-> 0, returned |-> "",
     overflow |-> FALSE, committed |-> {}, bcast |-> [p \in Panels |-> 0],
     settled |-> FALSE, completion |-> "", failed |-> {}, rendered |-> {},
     fresh |-> {}, wrote |-> "", over |-> <<>>, emitted |-> <<>>,
     ended |-> NoEnded, call |-> NoCall, resp |-> NoResp, raw |-> NoRaw,
     validated |-> NoValidated]

(***************************************************************************)
(* LocusZoom.Panel.prototype.generateExtents and render (the x axis)       *)
(***************************************************************************)
\* layout.cliparea.width, the same for both panels.
ClipWidth == 2 * HalfWidth

\* layout.axes.x.extent == "state" (panel "gwas" of the standard layout).
ExtentFromState(p) == p = "gwas"

Min2(a, b) == IF a < b THEN a ELSE b

\* F of the value of x, which is computed once.
With(x, F(_)) == CHOOSE r \in {F(v) : v \in {x}} : TRUE
Max2(a, b) == IF a > b THEN a ELSE b

\* Math.round(a / b) for b > 0.
RoundDiv(a, b) == (2 * a + b) \div (2 * b)

\* DataLayer.getAxisExtent("x") of a layer without data-derived x extent:
\* floor and ceiling when both are set, the state's region otherwise.
getAxisExtent(w, l) ==
    IF w.xaxis[l].set THEN <<w.xaxis[l].floor, w.xaxis[l].ceiling>>
    ELSE <<w.state.start, w.state.end>>

\* d3.extent over the concatenated layer extents, then the state override.
generateExtents(w, p) ==
    IF ExtentFromState(p) THEN <<w.state.start, w.state.end>>
    ELSE LET vals == UNION {{getAxisExtent(w, l)[1], getAxisExtent(w, l)[2]} :
                            l \in data_layers(w, p)}
             lo == CHOOSE v \in vals : \A u \in vals : v <= u
             hi == CHOOSE v \in vals : \A u \in vals : v >= u
         IN  <<lo, hi>>

\* The extent shifted by a background drag: the domain ext mapped onto the
\* range [dx, ClipWidth + dx], inverted at 0 and ClipWidth and rounded.
DragShift(ext, dx) ==
    <<RoundDiv(ext[1] * ClipWidth - dx * (ext[2] - ext[1]), ClipWidth),
      RoundDiv(ext[1] * ClipWidth + (ClipWidth - dx) * (ext[2] - ext[1]), ClipWidth)>>

\* The extent shifted by a zoom (lines 6481-6495, then 6534-6540).  dom is the
\* domain of the panel's current x_scale, whose range is [0, ClipWidth];
\* minScale and maxScale are the layout's min_region_scale and
\* max_region_scale.
ZoomShiftWith(ext, dom, z, minScale, maxScale) ==
    LET ces == IF ext[2] >= ext[1] THEN ext[2] - ext[1] ELSE ext[1] - ext[2]
        cs  == dom[2] - dom[1]
        pot == IF z.scale < 10 THEN (cs * 10) \div 9 ELSE (cs * 10) \div 11
        m   == IF z.scale < 10 THEN Min2(pot, maxScale)
               ELSE Max2(pot, minScale)
        nes == IF m = 0 THEN 0 ELSE (ces * cs) \div m
        ns  == Max2(dom[1] + ((cs - nes) * z.center) \div ClipWidth, 1)
    IN  IF nes = 0 \/ cs = 0 THEN <<ext[1], ext[1]>>
        ELSE <<RoundDiv(ext[1] * nes - (ns - dom[1]) * (ext[2] - ext[1]), nes),
               RoundDiv(ext[1] * nes + (dom[2] - ns) * (ext[2] - ext[1]), nes)>>

\* The same with the region scales of the plot's layout.
ZoomShift(ext, dom, z) ==
    ZoomShiftWith(ext, dom, z, MinRegionScale, MaxRegionScale)

\* layout.cliparea.height, the same for both panels.
ClipHeight == 2 * HalfWidth

\* The extent of the y field's values in the body a layer was given.
DataYExtent == <<0, MaxPos>>

\* DataLayer.getAxisExtent("y"): floor and ceiling when both are set, the
\* extent of the layer's data when it has data, [] otherwise.
getAxisExtentY(w, l) ==
    IF w.yaxis[l].set THEN <<w.yaxis[l].floor, w.yaxis[l].ceiling>>
    ELSE IF w.data[l] # <<>> THEN DataYExtent ELSE <<>>

\* generateExtents for axis y1 (every layer's y_axis.axis is 1): d3.extent
\* over the concatenated layer extents.  <<>> stands for the extent without
\* numbers that no scale can be rendered from.
generateExtentsY(w, p) ==
    LET vals == UNION {{getAxisExtentY(w, l)[i] : i \in DOMAIN getAxisExtentY(w, l)} :
                       l \in data_layers(w, p)}
    IN  IF vals = {} THEN <<>>
        ELSE <<CHOOSE v \in vals : \A u \in vals : v <= u,
               CHOOSE v \in vals : \A u \in vals : v >= u>>

\* The extent shifted by a drag of a y1 tick without the shift key (lines
\* 6513-6522, then 6534-6540): the domain ext mapped onto the range
\* [ClipHeight, ClipHeight - ClipHeight / scalar], inverted at ClipHeight and
\* 0 and rounded.  start_y counts pixels from the top of the clip area; the
\* pointer positions of the model keep anchor and anchor - dragged_y
\* positive and their ratio inside the limits of constrain.
TickShiftY(ext, d) ==
    LET anchor == ClipHeight - d.start_y
        den    == anchor - d.dragged_y
    IN  <<ext[1], RoundDiv(ext[1] * den + (ext[2] - ext[1]) * anchor, den)>>

\* One panel's render without the broadcast at its end.
RenderOne(w, p) ==
    With(w, LAMBDA v :
        LET ext == generateExtents(v, p)
            I   == v.interactions[v.iref[p]]
            new == IF I.zooming.on /\ v.panels[p].x_scale # <<>>
                   THEN ZoomShift(ext, v.panels[p].x_scale, I.zooming)
                   ELSE IF I.dragging.on /\ I.dragging.method = "background"
                   THEN DragShift(ext, I.dragging.dragged_x)
                   ELSE ext
            exty == generateExtentsY(v, p)
            newy == IF /\ ~(I.zooming.on /\ v.panels[p].x_scale # <<>>)
                       /\ I.dragging.on /\ I.dragging.method = "y1_tick"
                       /\ exty # <<>>
                    THEN TickShiftY(exty, I.dragging)
                    ELSE exty
        IN  [v EXCEPT !.panels[p].x_extent = new, !.panels[p].x_scale = new,
                      !.panels[p].y1_extent = newy])

\* An interaction object that no panel refers to any more is garbage: the
\* model keeps it in its initial form.
Unreferenced(w) ==
    With(w, LAMBDA v :
        [v EXCEPT !.interactions = [o \in Panels |->
            IF \E p \in Panels : v.iref[p] = o THEN v.interactions[o]
            ELSE [dragging |-> NoDrag, zooming |-> NoZoom]]])

\* The axes the broadcast loops over, in its order (no layer of the model
\* uses axis y2), and layout.interaction[axis + "_linked"].
Axes == <<"x", "y1">>
LinkedOn(w, axis, p) == IF axis = "x" THEN w.x_linked[p] ELSE w.y1_linked[p]

\* The receiving side of the broadcast for one axis: that axis' scale and
\* the interaction object are copied by reference, then render(true).  A
\* panel's y1 scale is not kept: render replaces it before it reads it.
BroadcastTo(w, p, q, axis) ==
    With(w, LAMBDA v :
        LET w1 == [v EXCEPT !.panels[q].x_scale =
                                IF axis = "x" THEN v.panels[p].x_scale ELSE @,
                            !.iref[q] = v.iref[p],
                            !.last.bcast[q] = IF v.lastcall["static"].on THEN @ + 1 ELSE @]
        IN  RenderOne(Unreferenced(w1), q))

\* A variant of BroadcastAll that does not leave out the rendering panel.
RECURSIVE BroadcastAllSelf(_, _, _, _)
BroadcastAllSelf(w, p, ids, axis) ==
    With(w, LAMBDA v :
        IF ids = <<>> THEN v
        ELSE LET q == Head(ids)
             IN  BroadcastAllSelf(IF ~LinkedOn(v, axis, q) THEN v
                                  ELSE BroadcastTo(v, p, q, axis),
                                  p, Tail(ids), axis))

RECURSIVE BroadcastAll(_, _, _, _)
BroadcastAll(w, p, ids, axis) ==
    With(w, LAMBDA v :
        IF ids = <<>> THEN v
        ELSE LET q == Head(ids)
             IN  BroadcastAll(IF q = p \/ ~LinkedOn(v, axis, q) THEN v
                              ELSE BroadcastTo(v, p, q, axis),
                              p, Tail(ids), axis))

\* dragging.on_x is set for the methods that act on the x axis, on_y1 for
\* the drag of a y1 tick.
OnX(d) == d.method \in {"background", "x_tick"}
OnAxis(d, axis) == IF axis = "x" THEN OnX(d) ELSE d.method = "y1_tick"

\* The broadcast at the end of render: for every linked axis that the
\* interaction under way acts on, every sibling linked on that axis.
RECURSIVE Broadcast(_, _, _)
Broadcast(w, p, axes) ==
    With(w, LAMBDA v :
        IF axes = <<>> THEN v
        ELSE LET axis == Head(axes)
                 I    == v.interactions[v.iref[p]]
             IN  Broadcast(IF /\ LinkedOn(v, axis, p)
                              /\ (I.zooming.on \/ (I.dragging.on /\ OnAxis(I.dragging, axis)))
                           THEN BroadcastAll(v, p, panel_ids_by_y_index(v), axis)
                           ELSE v,
                           p, Tail(axes)))

\* Panel.render(), called_from_broadcast false.
Render(w, p) ==
    With(w, LAMBDA v :
        Broadcast(RenderOne(v, p), p, Axes))

(***************************************************************************)
(* Plot.applyState, Panel.reMap, DataLayer.reMap                           *)
(***************************************************************************)
\* plot.emit(event) for who = "plot", panel.emit(event) for a panel.
Emits(who, event) == [who |-> who, event |-> event]

FreeOps(w) == {o \in OpIds : ~w.ops[o].active}

Terminal(c) == c.phase \in {"ok", "err", "none"}

\* What `return Q.all(...).catch(...).done(...)` hands to the caller:
\* done() ends a promise chain and returns nothing.
ReturnOfDone == "undefined"

\* A variant of applyState that abandons the operations still outstanding
\* when a new one starts (what a cancelling implementation would do).
applyStateCancelling(w, raw) ==
    With(w, LAMBDA v :
        IF FreeOps(v) = {} THEN [v EXCEPT !.last.overflow = TRUE] ELSE
        LET o  == CHOOSE x \in FreeOps(v) : \A y \in FreeOps(v) : x <= y
            st == validateState(raw)
        IN  [v EXCEPT !.state = st,
                      !.loading_data = TRUE,
                      !.ops = [x \in OpIds |->
                          IF x # o THEN NoOp
                          ELSE [active |-> TRUE, done |-> FALSE,
                                ch |-> [l \in Layers |->
                                    IF l \in v.present THEN StartChain ELSE NoChain],
                                pst |-> [p \in Panels |->
                                    IF p \in PanelsOf(v) THEN "pending" ELSE "none"]]],
                      !.last.updates = @ + 1,
                      !.last.returned = ReturnOfDone])

\* applyState(state_changes) for changes that give start and end: the state
\* is validated and written, loading_data is raised and every layer of
\* every panel starts a resolution.
applyState(w, raw) ==
    With(w, LAMBDA v :
        IF FreeOps(v) = {} THEN [v EXCEPT !.last.overflow = TRUE] ELSE
        LET o  == CHOOSE x \in FreeOps(v) : \A y \in FreeOps(v) : x <= y
            st == validateState(raw)
        IN  [v EXCEPT !.state = st,
                      !.loading_data = TRUE,
                      !.ops[o] = [active |-> TRUE, done |-> FALSE,
                                  ch |-> [l \in Layers |->
                                      IF l \in v.present THEN StartChain ELSE NoChain],
                                  pst |-> [p \in Panels |->
                                      IF p \in PanelsOf(v) THEN "pending" ELSE "none"]],
                      !.last.updates = @ + 1,
                      !.last.emitted =
                          @ \o <<Emits("plot", "data_requested")>>
                            \o [i \in DOMAIN v.layout.keys |->
                                   Emits(v.layout.keys[i], "data_requested")],
                      !.last.returned = ReturnOfDone])

\* The current state as applyState copies it before applying the changes.
CurrentRaw(w) == [start |-> Num(w.state.start), end |-> Num(w.state.end)]

\* Panel.reMap's then-callback (all layers of the panel resolved: render)
\* or its catch-callback (a layer rejected: the panel's curtain shows the
\* error), whichever comes first for this operation.
SettlePanel(w, o, p) ==
    With(w, LAMBDA v :
        IF v.ops[o].pst[p] # "pending" THEN v
        ELSE IF \E l \in data_layers(v, p) : v.ops[o].ch[l].phase = "err"
        THEN [v EXCEPT !.ops[o].pst[p] = "failed"]
        ELSE IF \A l \in data_layers(v, p) : v.ops[o].ch[l].phase = "ok"
        THEN [Render([v EXCEPT !.ops[o].pst[p] = "rendered",
                               !.layout.panel[p].initialized = TRUE], p)
                 EXCEPT !.last.emitted = Append(@, Emits(p, "data_rendered"))]
        ELSE v)

\* The promise Panel.reMap returns: its catch-callback returns normally, so
\* the promise is fulfilled whether the panel rendered or failed.
PanelPromise(st) ==
    IF st \in {"rendered", "failed"} THEN "fulfilled" ELSE "pending"

\* Q.all(remap_promises): rejected by the first rejected panel promise,
\* fulfilled when all are fulfilled.
PlotPromise(w, o) ==
    LET ps == {PanelPromise(w.ops[o].pst[p]) : p \in PanelsOf(w)}
    IN  IF "rejected" \in ps THEN "rejected"
        ELSE IF "pending" \in ps THEN "pending" ELSE "fulfilled"

\* The catch- and done-callbacks of applyState.
SettlePlot(w, o) ==
    With(w, LAMBDA v :
        IF ~v.ops[o].done /\ PlotPromise(v, o) # "pending"
        THEN [v EXCEPT !.ops[o].done = TRUE, !.loading_data = FALSE,
                       !.last.settled = TRUE,
                       !.last.emitted = Append(@, Emits("plot", "data_rendered")),
                       !.last.completion = PlotPromise(v, o),
                       !.last.failed = {p \in Panels : v.ops[o].pst[p] = "failed"},
                       !.last.rendered = {p \in Panels : v.ops[o].pst[p] = "rendered"},
                       !.last.fresh = {l \in Layers : v.ops[o].ch[l].phase = "ok"}]
        ELSE v)

\* Nothing of the operation is outstanding any more.
Retire(w, o) ==
    With(w, LAMBDA v :
        IF v.ops[o].done /\ \A l \in Layers : Terminal(v.ops[o].ch[l])
        THEN [v EXCEPT !.ops[o] = NoOp]
        ELSE v)

\* Everything that runs, without further I/O, once layer l's resolution of
\* operation o has ended.
Settle(w, o, l) ==
    With(w, LAMBDA v :
        Retire(SettlePlot(SettlePanel(v, o, PanelOf(l)), o), o))

\* A variant of Reject that hands the layer the chain merged so far.
RejectPartial(w, o, l, k) ==
    With(w, LAMBDA v :
        LET c == v.ops[o].ch[l]
        IN  Settle([v EXCEPT !.ops[o].ch[l] = Ended("err"),
                             !.data[l] = c.chain.body,
                             !.last.ended = [layer |-> l, how |-> "err", at |-> k,
                                             asked |-> c.asked, fly |-> c.fly]],
                   o, l))

\* The resolution rejects: the error of source k travels down the chain,
\* no later source is called and DataLayer.reMap's then-callback is skipped.
Reject(w, o, l, k) ==
    With(w, LAMBDA v :
        LET c == v.ops[o].ch[l]
        IN  Settle([v EXCEPT !.ops[o].ch[l] = Ended("err"),
                             !.last.ended = [layer |-> l, how |-> "err", at |-> k,
                                             asked |-> c.asked, fly |-> c.fly]],
                   o, l))

\* The resolution resolves: DataLayer.reMap's then-callback stores the body.
Resolve(w, o, l, k, out) ==
    With(w, LAMBDA v :
        LET c == v.ops[o].ch[l]
        IN  Settle([v EXCEPT !.ops[o].ch[l] = Ended("ok"),
                             !.data[l] = out.body,
                             !.last.wrote = l,
                             !.last.over = v.data[l],
                             !.last.ended = [layer |-> l, how |-> "ok", at |-> k,
                                             asked |-> c.asked, fly |-> c.fly]],
                   o, l))

\* A variant of Invocable that calls every source's function at once.
InvocableAll(l, c) ==
    IF c.phase = "run" THEN (1 .. Len(Reqs(l))) \ c.asked ELSE {}

\* Requester.getData chains the sources' functions with then(): the
\* function of a source is called when the one before it has delivered.
Invocable(l, c) ==
    IF c.phase = "run" /\ c.fly = {} THEN {c.done + 1} ELSE {}

\* A variant of InputChain that gives every source a fresh chain.
InputChainFresh(c) == EmptyChain

\* ret.then(promises[i]): the function is called with the value of the
\* promise chain so far.
InputChain(c) == c.chain

\* A getData call of source ns has completed (history, per source).
\* The history is kept only where it was switched on at the start.
NoPrev == [on |-> FALSE, key |-> NoKey, got |-> FALSE, fields |-> <<>>,
           input |-> EmptyChain, resp |-> NoResponse, issued |-> NoKey]
Completed(w, ns, key, got, fields, input, resp) ==
    With(w, LAMBDA v :
        IF ~v.lastcall[ns].on THEN v
        ELSE [v EXCEPT !.lastcall[ns] =
                 [on |-> TRUE, key |-> key, got |-> got, fields |-> fields,
                  input |-> input, resp |-> resp, issued |-> v.lastcall[ns].issued]])

\* A fetch of source ns has been issued for this key (history, per source:
\* the key of the fetch issued last).
Issued(w, ns, key) ==
    With(w, LAMBDA v :
        IF ~v.lastcall[ns].on THEN v
        ELSE [v EXCEPT !.lastcall[ns].issued = key])

\* Source k's response resp is parsed with the chain the source was called
\* with: the resolution rejects if the parse throws, resolves if this was
\* the last source, and otherwise moves on to the next source.
Parsed(w, o, l, k, input, resp) ==
    With(w, LAMBDA v :
        LET c   == v.ops[o].ch[l]
            rq  == Reqs(l)[k]
            out == parseResponse(rq.ns, resp, input, rq.fields)
        IN  IF ~ParseOK(resp) THEN Reject(v, o, l, k)
            ELSE IF c.done + 1 = Len(Reqs(l)) THEN Resolve(v, o, l, k, out)
            ELSE [v EXCEPT !.ops[o].ch[l].done = c.done + 1,
                           !.ops[o].ch[l].chain = out,
                           !.ops[o].ch[l].outs = Append(c.outs, out)])

\* Some fetch of source ns is in flight, in any resolution.
Fetching(w, ns) ==
    \E o \in OpIds, l \in Layers :
        \E f \in w.ops[o].ch[l].fly : Reqs(l)[f.k].ns = ns

\* The function Source.getData returned, called for source k of the
\* resolution: getRequest answers from the cache (and the response is
\* parsed at once) or issues the fetch.  The state is read at this moment.
getRequest(w, o, l, k) ==
    With(w, LAMBDA v :
        LET c     == v.ops[o].ch[l]
            rq    == Reqs(l)[k]
            ns    == rq.ns
            input == InputChain(c)
            w1    == [v EXCEPT !.ops[o].ch[l].asked = c.asked \cup {k},
                               !.ops[o].ch[l].calls =
                                   Append(c.calls, [ns |-> ns, input |-> input])]
        IN  IF ns = "ld" /\ ~LDCanBuildURL(input) THEN Reject(w1, o, l, k)
            ELSE IF IsStatic(ns) THEN Parsed(w1, o, l, k, input, StaticData)
            ELSE
            LET key  == getCacheKey(ns, v.state, input)
                hit  == CacheHit(ns, v.cache[ns], key)
                resp == IF hit THEN v.cache[ns].resp ELSE NoResponse
                w2   == [w1 EXCEPT !.last.call =
                            [ns |-> ns, key |-> key, hit |-> hit,
                             after |-> v.lastcall[ns].key # NoKey /\ ~Fetching(v, ns),
                             prev |-> v.lastcall[ns], fields |-> rq.fields,
                             input |-> input, resp |-> resp]]
            IN  IF hit
                THEN Parsed(Completed(w2, ns, key, TRUE, rq.fields, input, resp),
                            o, l, k, input, resp)
                ELSE [Issued(w2, ns, key) EXCEPT !.ops[o].ch[l].fly =
                                    c.fly \cup {[k |-> k, key |-> key, input |-> input]}])

\* The fetch f in flight is answered: an HTTP error rejects the resolution;
\* otherwise the response is stored in the cache slot and parsed.
fetchReturns(w, o, l, f, ok, good) ==
    With(w, LAMBDA v :
        LET c    == v.ops[o].ch[l]
            rq   == Reqs(l)[f.k]
            ns   == rq.ns
            resp == [key |-> f.key, good |-> good]
            w1   == [v EXCEPT !.ops[o].ch[l].fly = c.fly \ {f},
                              !.last.resp = [ns |-> ns, key |-> f.key, ok |-> ok,
                                             before |-> v.cache[ns]]]
        IN  IF ~ok
            THEN Reject(Completed(w1, ns, f.key, FALSE, rq.fields, f.input, NoResponse),
                        o, l, f.k)
            ELSE Parsed(Completed([w1 EXCEPT !.cache[ns] = StoreCache(ns, @, f.key, resp)],
                                  ns, f.key, TRUE, rq.fields, f.input, resp),
                        o, l, f.k, f.input, resp))

(***************************************************************************)
(* Panel interaction: canInteract, toggleDragging, the mouse handlers      *)
(* installed by Panel.initialize and the wheel handler installed by render *)
(***************************************************************************)
\* layout.interaction.drag_background_to_pan and scroll_to_zoom.
drag_background_to_pan(p) == TRUE
scroll_to_zoom(p) == TRUE
\* layout.interaction.drag_y1_ticks_to_scale (panel "gwas" of the standard
\* layout).
drag_y1_ticks_to_scale(p) == p = "gwas"

Inter(w, p) == w.interactions[w.iref[p]]

\* A variant of canInteract that does not look at interactions.zooming.
canInteractWhileZooming(w, p) ==
    ~(Inter(w, p).dragging.on \/ w.loading_data)

canInteract(w, p) ==
    ~(Inter(w, p).dragging.on \/ Inter(w, p).zooming.on \/ w.loading_data)

\* overrideAxisLayout("x", 1, extent): every layer of the panel.
overrideAxisLayout(w, p, extent) ==
    With(w, LAMBDA v :
        [v EXCEPT !.xaxis = [l \in Layers |->
            IF l \in data_layers(v, p)
            THEN [set |-> TRUE, floor |-> extent[1], ceiling |-> extent[2]]
            ELSE v.xaxis[l]]])

\* The commit of a drag on the x axis by panel p.
CommitX(w, p) ==
    With(w, LAMBDA v :
        LET ext == v.panels[p].x_extent
        IN  IF ext = <<>> THEN v      \* x_extent is null: the handler throws
            ELSE applyState(overrideAxisLayout(v, p, ext),
                            [start |-> Num(ext[1]), end |-> Num(ext[2])]))

\* overrideAxisLayout("y", "1", extent): every layer of the panel.
overrideAxisLayoutY(w, p, extent) ==
    With(w, LAMBDA v :
        [v EXCEPT !.yaxis = [l \in Layers |->
            IF l \in data_layers(v, p)
            THEN [set |-> TRUE, floor |-> extent[1], ceiling |-> extent[2]]
            ELSE v.yaxis[l]]])

\* The commit of a drag of a y1 tick by panel p: no applyState, no render.
CommitY(w, p) ==
    With(w, LAMBDA v :
        LET ext == v.panels[p].y1_extent
        IN  IF ext = <<>> THEN v      \* nothing numeric to set floor and ceiling to
            ELSE overrideAxisLayoutY(v, p, ext))

\* The height of the pointer during the horizontal gestures, in pixels from
\* the top of the clip area.
PointerY == HalfWidth

\* toggleDragging(method) with the pointer at <<x, y>>; method "" stands for
\* null.
toggleDraggingAt(w, p, method, x, y) ==
    With(w, LAMBDA v :
        LET d == Inter(v, p).dragging
        IN  IF d.on
            THEN LET w1 == IF OnX(d) /\ d.dragged_x # 0 THEN CommitX(v, p)
                           ELSE IF d.method = "y1_tick" /\ d.dragged_y # 0
                           THEN CommitY(v, p)
                           ELSE v
                 IN  [w1 EXCEPT !.interactions[v.iref[p]].dragging = NoDrag]
            ELSE IF canInteract(v, p)
            THEN [v EXCEPT !.interactions[v.iref[p]].dragging =
                     [on |-> TRUE, method |-> method, panel_id |-> p, start_x |-> x,
                      start_y |-> y, dragged_x |-> 0, dragged_y |-> 0]]
            ELSE v)

\* toggleDragging during a horizontal gesture.
toggleDragging(w, p, method, x) == toggleDraggingAt(w, p, method, x, PointerY)

\* The mouseup handlers of all panels, in the order they were installed.
RECURSIVE mouseupAll(_, _, _)
mouseupAll(w, ids, x) ==
    With(w, LAMBDA v :
        IF ids = <<>> THEN v
        ELSE mouseupAll(toggleDragging(v, Head(ids), "", x), Tail(ids), x))

\* A variant of mousemove that commits the shifted extent on every move.
mousemoveCommitting(w, p, x) ==
    With(w, LAMBDA v :
        LET d == Inter(v, p).dragging
        IN  IF ~d.on \/ d.panel_id # p THEN v
            ELSE CommitX(Render([v EXCEPT !.interactions[v.iref[p]].dragging.dragged_x =
                                              x - d.start_x], p), p))

\* One panel's mousemove handler.
mousemove(w, p, x) ==
    With(w, LAMBDA v :
        LET d == Inter(v, p).dragging
        IN  IF ~d.on \/ d.panel_id # p THEN v
            ELSE Render([v EXCEPT !.interactions[v.iref[p]].dragging.dragged_x =
                                      x - d.start_x], p))

\* One panel's mousemove handler for a pointer that moved vertically, to
\* height y: dragged_x stays as it is.
mousemoveY(w, p, y) ==
    With(w, LAMBDA v :
        LET d == Inter(v, p).dragging
        IN  IF ~d.on \/ d.panel_id # p THEN v
            ELSE Render([v EXCEPT !.interactions[v.iref[p]].dragging.dragged_y =
                                      y - d.start_y], p))

RECURSIVE mousemoveYAll(_, _, _)
mousemoveYAll(w, ids, y) ==
    With(w, LAMBDA v :
        IF ids = <<>> THEN v
        ELSE mousemoveYAll(mousemoveY(v, Head(ids), y), Tail(ids), y))

RECURSIVE mousemoveAll(_, _, _)
mousemoveAll(w, ids, x) ==
    With(w, LAMBDA v :
        IF ids = <<>> THEN v
        ELSE mousemoveAll(mousemove(v, Head(ids), x), Tail(ids), x))

\* A variant of zoom_handler without the timeout: every wheel event commits.
zoom_handlerImmediate(w, p, delta, x) ==
    With(w, LAMBDA v :
        IF Inter(v, p).dragging.on \/ v.loading_data THEN v
        ELSE LET w1  == Render([v EXCEPT !.interactions[v.iref[p]].zooming =
                                    [on |-> TRUE, scale |-> IF delta < 1 THEN 9 ELSE 11,
                                     center |-> x]], p)
                 ext == w1.panels[p].x_extent
             IN  applyState([w1 EXCEPT !.interactions[v.iref[p]].zooming = NoZoom],
                            [start |-> Num(ext[1]), end |-> Num(ext[2])]))

\* zoom_handler: delta is -1 or 1 (0 returns at once), scale in tenths.
zoom_handler(w, p, delta, x) ==
    With(w, LAMBDA v :
        IF Inter(v, p).dragging.on \/ v.loading_data THEN v
        ELSE LET w1 == [v EXCEPT !.interactions[v.iref[p]].zooming =
                            [on |-> TRUE, scale |-> IF delta < 1 THEN 9 ELSE 11,
                             center |-> x]]
             IN  [Render(w1, p) EXCEPT !.zoom_timeout[p] = TRUE])

\* The function given to setTimeout by zoom_handler.
zoom_commit(w, p) ==
    With(w, LAMBDA v :
        LET w1  == [v EXCEPT !.interactions[v.iref[p]].zooming = NoZoom,
                             !.zoom_timeout[p] = FALSE]
            ext == v.panels[p].x_extent
        IN  applyState(w1, [start |-> Num(ext[1]), end |-> Num(ext[2])]))

(***************************************************************************)
(* Numbers of the layout.  JavaScript numbers are binary floating point     *)
(* with a significand of 53 bits, rounded to nearest (ties to even) after   *)
(* every operation; the model keeps that arithmetic and narrows the         *)
(* significand to Precision bits.  A number is zero or m * 2^e with         *)
(* 2^(Precision-1) <= m < 2^Precision; no layout number is negative.        *)
(***************************************************************************)
RECURSIVE Pow2(_)
Pow2(n) == IF n = 0 THEN 1 ELSE 2 * Pow2(n - 1)

Zero == [m |-> 0, e |-> 0]
\* null (a proportional height that has not been set).
Null == [m |-> -1, e |-> 0]

\* The number nearest to (n / d) * 2^e, for n >= 0 and d > 0.
RECURSIVE Nearest(_, _, _)
Nearest(n, d, e) ==
    IF n = 0 THEN Zero
    ELSE IF n >= d * Pow2(Precision) THEN Nearest(n, 2 * d, e + 1)
    ELSE IF n < d * Pow2(Precision - 1) THEN Nearest(2 * n, d, e - 1)
    ELSE LET q  == n \div d
             r  == n % d
             up == 2 * r > d \/ (2 * r = d /\ q % 2 = 1)
             m  == IF up THEN q + 1 ELSE q
         IN  IF m = Pow2(Precision) THEN [m |-> Pow2(Precision - 1), e |-> e + 1]
             ELSE [m |-> m, e |-> e]

\* An integer as a number.
FromInt(n) == Nearest(n, 1, 0)

\* The significands of a and b at the smaller of their exponents.
Aligned(x, y) ==
    With(<<x, y>>, LAMBDA v :
        LET a == v[1]
            b == v[2]
            e == IF a.m = 0 THEN b.e ELSE IF b.m = 0 THEN a.e ELSE Min2(a.e, b.e)
        IN  [a |-> IF a.m = 0 THEN 0 ELSE a.m * Pow2(a.e - e),
             b |-> IF b.m = 0 THEN 0 ELSE b.m * Pow2(b.e - e), e |-> e])

Less(a, b) == With(Aligned(a, b), LAMBDA v : v.a < v.b)
MaxNum(a, b) == With(<<a, b>>, LAMBDA v : IF Less(v[1], v[2]) THEN v[2] ELSE v[1])

\* a + b, a - b (for a >= b), a * b and a / b (for b > 0).
Plus(a, b) == With(Aligned(a, b), LAMBDA v : Nearest(v.a + v.b, 1, v.e))
Minus(a, b) == With(Aligned(a, b), LAMBDA v : Nearest(v.a - v.b, 1, v.e))
Times(a, b) == With(<<a, b>>, LAMBDA v : Nearest(v[1].m * v[2].m, 1, v[1].e + v[2].e))
Over(a, b) == With(<<a, b>>, LAMBDA v : Nearest(v[1].m, v[2].m, v[1].e - v[2].e))

\* Math.round of a number, as an integer: the nearest integer, halves up.
Round(x) ==
    With(x, LAMBDA a :
        IF a.e >= 0 THEN a.m * Pow2(a.e)
        ELSE (2 * a.m + Pow2(-a.e)) \div (2 * Pow2(-a.e)))

(***************************************************************************)
(* The vertical layout: Plot.sumProportional, setDimensions, addPanel,      *)
(* removePanel, positionPanels, the drag handlers of the panel boundaries;  *)
(* Panel.setDimensions, setOrigin, moveUp, moveDown.  Widths are left out.  *)
(***************************************************************************)
\* layout.min_height of the panels: the standard layout's, scaled down.
min_height(p) == FromInt(IF p = "gwas" THEN HalfHeight - 1 ELSE HalfHeight \div 2)

\* A panel that is not on the plot.
NoPanelLayout == [height |-> Zero, origin |-> 0, proportional_height |-> Null,
                  initialized |-> FALSE]

\* !x for a proportional height.
Falsy(x) == x = Null \/ x = Zero

\* Panel.setOrigin(x, y) for a number y >= 0.
setOrigin(w, p, y) ==
    With([w EXCEPT !.layout.panel[p].origin = Round(y)],
         LAMBDA w1 : IF w1.layout.panel[p].initialized THEN Render(w1, p) ELSE w1)

\* Panel.setDimensions(width, height) for numbers >= 0.
Panel_setDimensions(w, p, height) ==
    With([w EXCEPT !.layout.panel[p].height =
                       MaxNum(FromInt(Round(height)), min_height(p))],
         LAMBDA w1 : IF w1.layout.panel[p].initialized THEN Render(w1, p) ELSE w1)

\* Panel.setDimensions() without arguments.
Panel_setDimensionsNoArgs(w, p) ==
    With(w, LAMBDA v :
        With(IF v.layout.panel[p].proportional_height # Null
             THEN [v EXCEPT !.layout.panel[p].height =
                       MaxNum(Times(v.layout.panel[p].proportional_height,
                                    v.layout.height),
                              min_height(p))]
             ELSE v,
             LAMBDA w1 : IF w1.layout.panel[p].initialized THEN Render(w1, p) ELSE w1))

\* Plot.sumProportional("height"), over the keys of plot.panels: the layout
\* it leaves and the total.
RECURSIVE sumProportional(_, _, _)
sumProportional(L, ids, total) ==
    IF ids = <<>> THEN [layout |-> L, total |-> total]
    ELSE LET p  == Head(ids)
             L1 == IF Falsy(L.panel[p].proportional_height)
                   THEN [L EXCEPT !.panel[p].proportional_height =
                                      Over(FromInt(1), FromInt(Len(L.keys)))]
                   ELSE L
         IN  sumProportional(L1, Tail(ids),
                             Plus(total, L1.panel[p].proportional_height))

\* The plot's min_height as setDimensions aggregates it.
RECURSIVE PlotMinHeight(_, _, _)
PlotMinHeight(L, ids, acc) ==
    IF ids = <<>> THEN MaxNum(acc, FromInt(1))
    ELSE PlotMinHeight(L, Tail(ids),
                       MaxNum(acc, Over(min_height(Head(ids)),
                                        L.panel[Head(ids)].proportional_height)))

RECURSIVE SumHeights(_, _, _)
SumHeights(L, ids, acc) ==
    IF ids = <<>> THEN acc
    ELSE SumHeights(L, Tail(ids), Plus(acc, L.panel[Head(ids)].height))

\* Plot.setDimensions() without arguments: the plot conforms to its panels.
Plot_setDimensionsNoArgs(w) ==
    With(w, LAMBDA v :
        IF v.layout.keys = <<>> THEN v
        ELSE [v EXCEPT !.layout.height =
                  MaxNum(SumHeights(v.layout, v.layout.keys, Zero),
                         PlotMinHeight(v.layout, v.layout.keys, Zero))])

\* The loop of Plot.setDimensions(width, height) over panel_ids_by_y_index.
RECURSIVE ResizePanels(_, _, _)
ResizePanels(w, ids, y_offset) ==
    IF ids = <<>> THEN w
    ELSE With(<<w, Times(w.layout.panel[Head(ids)].proportional_height,
                         w.layout.height), y_offset>>,
              LAMBDA v :
                  ResizePanels(setOrigin(Panel_setDimensions(v[1], Head(ids), v[2]),
                                         Head(ids), v[3]),
                               Tail(ids), Plus(v[3], v[2])))

\* Plot.setDimensions(width, height) for numbers >= 0.
Plot_setDimensions(w, height) ==
    With([w EXCEPT !.layout.height =
                       MaxNum(FromInt(Round(height)),
                              PlotMinHeight(w.layout, w.layout.keys, Zero))],
         LAMBDA w1 : ResizePanels(w1, w1.layout.order, Zero))

\* The loops of positionPanels.
RECURSIVE DefaultProportional(_, _)
DefaultProportional(L, ids) ==
    IF ids = <<>> THEN L
    ELSE LET p == Head(ids)
         IN  DefaultProportional(
                 IF L.panel[p].proportional_height = Null
                 THEN [L EXCEPT !.panel[p].proportional_height =
                                    Over(L.panel[p].height, L.height)]
                 ELSE L,
                 Tail(ids))

RECURSIVE SetOrigins(_, _, _)
SetOrigins(w, ids, y_offset) ==
    IF ids = <<>> THEN w
    ELSE With(<<w, y_offset>>, LAMBDA v :
             SetOrigins(setOrigin(v[1], Head(ids), v[2]), Tail(ids),
                        Plus(v[2], v[1].layout.panel[Head(ids)].height)))

RECURSIVE SetPanelDimensions(_, _)
SetPanelDimensions(w, ids) ==
    IF ids = <<>> THEN w
    ELSE With(w, LAMBDA v :
             SetPanelDimensions(
                 Panel_setDimensions(v, Head(ids),
                     Times(v.layout.height,
                           v.layout.panel[Head(ids)].proportional_height)),
                 Tail(ids)))

\* The proportional heights multiplied by the adjustment.
Adjusted(L, adj) ==
    [L EXCEPT !.panel = [p \in Panels |->
        IF \E i \in DOMAIN L.keys : L.keys[i] = p
        THEN [@[p] EXCEPT !.proportional_height = Times(@, adj)]
        ELSE @[p]]]

positionPanels(w) ==
    With(<<w, With(DefaultProportional(w.layout, w.layout.keys),
                   LAMBDA L1 : sumProportional(L1, L1.keys, Zero))>>,
         LAMBDA v :
             IF Falsy(v[2].total) THEN [v[1] EXCEPT !.layout = v[2].layout]
             ELSE With(SetOrigins(
                           [v[1] EXCEPT !.layout =
                               Adjusted(v[2].layout, Over(FromInt(1), v[2].total))],
                           v[1].layout.order, Zero),
                       LAMBDA w1 :
                           With(Plot_setDimensionsNoArgs(w1),
                                LAMBDA w2 : SetPanelDimensions(w2, w2.layout.order))))

\* The position of x in a sequence that holds it.
YIndexIn(seq, x) == CHOOSE i \in DOMAIN seq : seq[i] = x

\* A sequence without the element x.
Without(seq, x) == SelectSeq(seq, LAMBDA y : y # x)

\* seq.splice(seq.indexOf(x), 1): the first x is taken out; for a sequence
\* without x, indexOf is -1 and splice(-1, 1) takes out the last element.
SpliceOut(seq, x) ==
    IF \E k \in DOMAIN seq : seq[k] = x
    THEN LET i == CHOOSE k \in DOMAIN seq :
                      seq[k] = x /\ \A j \in 1 .. k - 1 : seq[j] # x
         IN  SubSeq(seq, 1, i - 1) \o SubSeq(seq, i + 1, Len(seq))
    ELSE SubSeq(seq, 1, Len(seq) - 1)

\* plot.applyPanelYIndexesToPanelLayouts(): every listed panel's
\* layout.y_index becomes the index of its (last) entry in the y order.
applyPanelYIndexesToPanelLayouts(w) ==
    [w EXCEPT !.y_index = [p \in Panels |->
        IF \E i \in DOMAIN w.layout.order : w.layout.order[i] = p
        THEN (CHOOSE i \in DOMAIN w.layout.order :
                  /\ w.layout.order[i] = p
                  /\ \A j \in DOMAIN w.layout.order :
                         w.layout.order[j] = p => j <= i) - 1
        ELSE @[p]]]

\* Panel.reMap() of one panel alone: its layers start a resolution, no
\* promise of the plot waits for it.
reMapPanel(w, p) ==
    With(w, LAMBDA v :
        IF FreeOps(v) = {} THEN [v EXCEPT !.last.overflow = TRUE] ELSE
        LET o == CHOOSE x \in FreeOps(v) : \A y \in FreeOps(v) : x <= y
        IN  [v EXCEPT !.ops[o] =
                [active |-> TRUE, done |-> TRUE,
                 ch |-> [l \in Layers |->
                     IF l \in data_layers(v, p) THEN StartChain ELSE NoChain],
                 pst |-> [q \in Panels |-> IF q = p THEN "pending" ELSE "none"]],
                     !.last.emitted = Append(@, Emits(p, "data_requested"))])

\* new LocusZoom.Panel(layout, plot) and the part of addPanel that stores
\* it: the panel's and its layers' state sub-namespaces are created where
\* they are missing, the panel is appended to the keys and to the y order.
\* lay gives layout.height and layout.proportional_height.
StorePanel(w, p, lay, layers) ==
    With(w, LAMBDA v :
        With(Panel_setDimensionsNoArgs(
                 [v EXCEPT !.substate.panel[p] = TRUE,
                           !.substate.layer = [l \in Layers |->
                               IF l \in layers THEN [@[l] EXCEPT !.has = TRUE] ELSE @[l]],
                           !.present = @ \cup layers,
                           !.layout.panel[p] =
                               [height |-> lay.height, origin |-> 0,
                                proportional_height |->
                                    IF lay.height = Zero /\ lay.proportional_height = Null
                                    THEN (IF Len(v.layout.keys) > 0
                                          THEN Over(FromInt(1), FromInt(Len(v.layout.keys)))
                                          ELSE FromInt(1))
                                    ELSE lay.proportional_height,
                                initialized |-> FALSE]], p),
             LAMBDA w2 : [w2 EXCEPT !.layout.keys = Append(@, p),
                                    !.layout.order = Append(@, p),
                                    !.y_index[p] = Len(w2.layout.order)]))

\* plot.addPanel(layout) on an initialized plot.
addPanel(w, p, lay, layers) ==
    With(reMapPanel(positionPanels(StorePanel(w, p, lay, layers)), p),
         LAMBDA w1 : Plot_setDimensions(w1, w1.layout.height))

\* plot.removePanel(id) on an initialized plot.
removePanel(w, p) ==
    With(w, LAMBDA v :
    LET gone == data_layers(v, p)
        w1   == [v EXCEPT
                    !.substate.panel[p] = FALSE,
                    !.substate.layer = [l \in Layers |->
                        IF l \in gone THEN [has |-> FALSE, selected |-> FALSE] ELSE @[l]],
                    !.present = @ \ gone,
                    !.data = [l \in Layers |-> IF l \in gone THEN <<>> ELSE @[l]],
                    !.xaxis = [l \in Layers |->
                        IF l \in gone THEN [set |-> FALSE, floor |-> 0, ceiling |-> 0]
                        ELSE @[l]],
                    !.yaxis = [l \in Layers |->
                        IF l \in gone THEN [set |-> FALSE, floor |-> 0, ceiling |-> 0]
                        ELSE @[l]],
                    !.panels[p] = NoPanel,
                    !.layout.panel[p] = NoPanelLayout,
                    !.layout.keys = Without(@, p),
                    !.layout.order = SpliceOut(@, p),
                    !.y_index[p] = 0]
    IN  With(positionPanels(w1),
             LAMBDA w2 : Plot_setDimensions(w2, w2.layout.height)))

\* The position of panel p in the y order.
YIndex(w, p) == YIndexIn(w.layout.order, p)

\* seq[i] = x for an array of the code: writing one past the end appends.
Put(seq, i, x) == IF i = Len(seq) + 1 THEN Append(seq, x) ELSE [seq EXCEPT ![i] = x]

\* The place in the y order that panel p's layout.y_index names (the
\* sequences of the model count from 1).
Place(w, p) == w.y_index[p] + 1

\* panel.moveUp() and panel.moveDown(): the neighbour is looked up, and the
\* two entries are written, at the places the panel's layout.y_index names.
moveUp(w, p) ==
    With(w, LAMBDA v :
        IF Place(v, p) - 1 \in DOMAIN v.layout.order
        THEN positionPanels(applyPanelYIndexesToPanelLayouts(
                 [v EXCEPT !.layout.order =
                      Put(Put(@, Place(v, p), @[Place(v, p) - 1]),
                          Place(v, p) - 1, p)]))
        ELSE v)

moveDown(w, p) ==
    With(w, LAMBDA v :
        IF Place(v, p) + 1 \in DOMAIN v.layout.order
        THEN positionPanels(applyPanelYIndexesToPanelLayouts(
                 [v EXCEPT !.layout.order =
                      Put(Put(@, Place(v, p), @[Place(v, p) + 1]),
                          Place(v, p) + 1, p)]))
        ELSE v)

\* a + dy for a number a and an integer dy, where that is not negative.
Shifted(a, dy) == IF dy >= 0 THEN Plus(a, FromInt(dy)) ELSE Minus(a, FromInt(-dy))

\* The loop of the boundary drag over the panels: each panel's proportional
\* height from its height and the new plot height, the panels below the
\* resized one moved by the change (grew tells its sign).
RECURSIVE Reproportion(_, _, _, _, _, _)
Reproportion(w, ids, below, new_height, change, grew) ==
    IF ids = <<>> THEN w
    ELSE With(<<[w EXCEPT !.layout.panel[Head(ids)].proportional_height =
                               Over(w.layout.panel[Head(ids)].height, new_height)],
                FromInt(w.layout.panel[Head(ids)].origin)>>,
              LAMBDA v :
                  Reproportion(
                      IF ~below THEN v[1]
                      ELSE IF grew THEN setOrigin(v[1], Head(ids), Plus(v[2], change))
                      ELSE IF Less(v[2], change) THEN v[1]  \* y < 0: origin.y is kept
                      ELSE setOrigin(v[1], Head(ids), Minus(v[2], change)),
                      Tail(ids), below, new_height, change, grew))

\* The drag handler of the boundary below panel p, the pointer moved by dy.
panel_resize_drag(w, p, dy) ==
    With(<<w, Panel_setDimensions(w, p, Shifted(w.layout.panel[p].height, dy))>>,
         LAMBDA v :
    LET original == v[1].layout.panel[p].height
        now      == v[2].layout.panel[p].height
        grew     == ~Less(now, original)
        change   == IF grew THEN Minus(now, original) ELSE Minus(original, now)
        new_h    == IF grew THEN Plus(v[1].layout.height, change)
                    ELSE Minus(v[1].layout.height, change)
        i        == YIndex(v[1], p)
        upto     == SubSeq(v[1].layout.order, 1, i)
        after    == SubSeq(v[1].layout.order, i + 1, Len(v[1].layout.order))
    IN  With(<<change, new_h, grew>>, LAMBDA c :
            With(Reproportion(v[2], upto, FALSE, c[2], c[1], c[3]),
                 LAMBDA w2 : positionPanels(
                     Reproportion(w2, after, TRUE, c[2], c[1], c[3])))))

\* The drag handler of the plot's corner, the pointer moved down by dy.
corner_drag(w, dy) ==
    With(w, LAMBDA v : Plot_setDimensions(v, Shifted(v.layout.height, dy)))

\* DataLayer.setElementStatus("selected", element, toggle) for the one
\* element the model tells apart.
setElementStatus(w, l, toggle) ==
    With(w, LAMBDA v :
        [v EXCEPT !.substate.layer[l].selected = toggle])

(***************************************************************************)
(* The state machine                                                       *)
(***************************************************************************)
\* Coordinates a caller may pass: NaN, a negative number, a fraction below
\* one, a position with a fraction and a whole position.
MidPos == MaxPos \div 2
RawVals ==
    {NotANumber, Num(-1), [nan |-> FALSE, half |-> 1],
     [nan |-> FALSE, half |-> 2 * MidPos + 1], Num(MaxPos)}

\* layout.state as the plot was constructed with it.
InitRegion == [start |-> 2, end |-> 5, whole |-> TRUE]

\* The regions mapTo is called with.
Targets == {<<1, 1 + MinRegionScale>>}

\* Pointer positions, in pixels from the left edge of the clip area.
Pixels == {0, HalfWidth}

\* The layout of a plot made of panels of the standard layout (each of
\* height HalfHeight with proportional height 1/2 when there are two, the
\* plot's height the sum), after setDimensions(), positionPanels() and
\* initialize() have run on it: these leave it as it is.
\* The layout.y_index of the panels of a plot that was constructed with the
\* panels in this order (addPanel, lines 5213-5214).
PanelYIndexes(ids) ==
    [p \in Panels |-> IF \E i \in DOMAIN ids : ids[i] = p
                      THEN YIndexIn(ids, p) - 1 ELSE 0]

StandardLayout(layers) ==
    LET ids == SelectSeq(AllPanelIds, LAMBDA p : p \in {PanelOf(l) : l \in layers})
    IN  [height |-> FromInt(Len(ids) * HalfHeight),
         keys |-> ids, order |-> ids,
         panel |-> [p \in Panels |->
             IF p \in {PanelOf(l) : l \in layers}
             THEN [height |-> FromInt(HalfHeight),
                   origin |-> (YIndexIn(ids, p) - 1) * HalfHeight,
                   proportional_height |-> Over(FromInt(1), FromInt(Len(ids))),
                   initialized |-> FALSE]
             ELSE NoPanelLayout]]

\* new LocusZoom.Plot(...) with the given data layers, initialized.
Constructed(layers, linked, history) ==
    [state |-> InitRegion,
     loading_data |-> FALSE,
     ops |-> [o \in OpIds |-> NoOp],
     cache |-> [s \in Sources |-> NoCache],
     data |-> [l \in Layers |-> <<>>],
     xaxis |-> [l \in Layers |-> [set |-> FALSE, floor |-> 0, ceiling |-> 0]],
     yaxis |-> [l \in Layers |-> [set |-> FALSE, floor |-> 0, ceiling |-> 0]],
     panels |-> [p \in Panels |-> NoPanel],
     interactions |-> [p \in Panels |-> [dragging |-> NoDrag, zooming |-> NoZoom]],
     iref |-> [p \in Panels |-> p],
     zoom_timeout |-> [p \in Panels |-> FALSE],
     x_linked |-> linked,
     y1_linked |-> [p \in Panels |-> FALSE],
     present |-> layers,
     lastcall |-> [s \in Sources |-> [NoPrev EXCEPT !.on = history]],
     layout |-> StandardLayout(layers),
     substate |-> [panel |-> [p \in Panels |-> p \in {PanelOf(l) : l \in layers}],
                   layer |-> [l \in Layers |->
                                 [has |-> l \in layers, selected |-> FALSE]]],
     lzd |-> NoResolution,
     restored |-> NotRestored,
     gesture |-> NoGesture,
     joined |-> NoJoin,
     extent_call |-> NoAxis,
     y_index |-> PanelYIndexes(StandardLayout(layers).order),
     selection |-> NoSelection,
     last |-> Quiet("")]

\* LocusZoom.populate: construct, initialize, refresh.
populate(layers, linked, history) ==
    LET w == Constructed(layers, linked, history)
    IN  applyState(w, CurrentRaw(w))

\* The variables hold world w.
Starts(w) ==
    /\ state = w.state
    /\ loading_data = w.loading_data
    /\ ops = w.ops
    /\ cache = w.cache
    /\ data = w.data
    /\ xaxis = w.xaxis
    /\ yaxis = w.yaxis
    /\ panels = w.panels
    /\ interactions = w.interactions
    /\ iref = w.iref
    /\ zoom_timeout = w.zoom_timeout
    /\ x_linked = w.x_linked
    /\ y1_linked = w.y1_linked
    /\ present = w.present
    /\ lastcall = w.lastcall
    /\ layout = w.layout
    /\ substate = w.substate
    /\ lzd = w.lzd
    /\ restored = w.restored
    /\ gesture = w.gesture
    /\ joined = w.joined
    /\ extent_call = w.extent_call
    /\ y_index = w.y_index
    /\ selection = w.selection
    /\ last = w.last

\* The standard layout links the x axes of its panels.
Linked == [p \in Panels |-> TRUE]

\* layout.interaction.x_linked of the default panel layout.
Unlinked == [p \in Panels |-> FALSE]

\* The model follows the plot while its region ends at or below MaxEnd and
\* every panel's x extent ends at a position (1 or more).
MaxEnd == MaxPos + 1

\* The tallest plot the model follows, in pixels.
MaxHeight == 2 * HalfHeight + 2

InRange(w) ==
    /\ w.state.end <= MaxEnd
    /\ \A p \in PanelsOf(w) :
          IF Len(w.panels[p].x_extent) = 2
          THEN w.panels[p].x_extent[2] >= 1 ELSE TRUE

\* A handler's result becomes the next state, unless it needed more
\* outstanding operations than the model holds or panned out of its range.
Do(w) == \E v \in {w} : ~v.last.overflow /\ InRange(v) /\ Becomes(v)

\* The same for the handlers that lay the panels out, which the model
\* follows while the plot is no taller than MaxHeight.
Fits(w) ==
    /\ ~Less(FromInt(MaxHeight), w.layout.height)
    /\ Len(w.layout.order) <= MaxListed
DoLayout(w) == \E v \in {w} : Fits(v) /\ Do(v)

\* The world at the start of a handler.  The handler's name is recorded for
\* pointer-up, and for the gesture handlers where the history is kept.
Begin(ev) ==
    [World EXCEPT !.last =
        Quiet(IF \/ ev \in {"mouseup", "setDimensions"}
                 \/ lastcall["static"].on /\ ev \in {"mousemove", "wheel", "zoom_timeout"}
              THEN ev ELSE "")]

\* plot.applyState({start: s, end: e}) by a caller.
ApplyState ==
    \E s, e \in RawVals :
        Do(applyState(Begin("applyState"), [start |-> s, end |-> e]))

\* plot.mapTo(chr, start, end) to one of the regions a page links to.
MapTo ==
    \E r \in Targets :
        Do(applyState(Begin("mapTo"), [start |-> Num(r[1]), end |-> Num(r[2])]))

\* No applyState call is outstanding.
Idle == \A o \in OpIds : ~ops[o].active

\* plot.mapTo by a caller that waits for the previous update to finish.
MapToNext == Idle /\ MapTo

\* The same caller maps back to the region the plot was constructed with.
MapToInitial ==
    Idle /\
    Do(applyState(Begin("mapTo"), [start |-> Num(InitRegion.start),
                                   end |-> Num(InitRegion.end)]))

\* Whole positions a caller may pass.
Positions == {Num(i) : i \in 1..MaxPos}

\* plot.applyState({start: s, end: e}) by a caller that passes whole
\* positions too, and waits for the previous update to finish; the region
\* it passed is kept on record.
ApplyRegion ==
    \E s, e \in RawVals \cup Positions :
        /\ Idle
        /\ Do([applyState(Begin("applyState"), [start |-> s, end |-> e])
                  EXCEPT !.last.raw = [start |-> s, end |-> e, given |-> TRUE]])

\* LocusZoom.validateState(new_state, layout) by a caller, with a layout
\* that sets the region scales or with none; its argument and its result
\* are kept on record.
ValidateState ==
    \E s, e \in RawVals \cup Positions, c, hs, he, lim \in BOOLEAN :
        LET in == [has_chr |-> c, has_start |-> hs, has_end |-> he,
                   start |-> s, end |-> e]
        IN  /\ hs \/ s = NotANumber      \* a missing coordinate has no value
            /\ he \/ e = NotANumber
            /\ Do([Begin("validateState") EXCEPT !.last.validated =
                      [given |-> TRUE, limits |-> lim, input |-> in,
                       output |-> validateStateOf(in, lim)]])

\* The field specs a caller asks for: field "pvalue" with up to MaxChain
\* transformations, alone or followed by field "id".
RECURSIVE Chains(_)
Chains(n) ==
    IF n = 0 THEN {<<>>}
    ELSE Chains(n - 1) \cup
         {Append(c, t) : c \in {x \in Chains(n - 1) : Len(x) = n - 1}, t \in TransNames}
FieldLists ==
    {<<FT("pvalue", c)>> : c \in Chains(MaxChain)}
        \cup {<<FT("pvalue", c), FT("id", <<>>)>> : c \in Chains(MaxChain)}

\* The responses a server gives: up to MaxRows objects, each with some of
\* the fields, or an object of arrays of one length, which may be 0.
RECURSIVE RowSeqs(_)
RowSeqs(n) ==
    IF n = 0 THEN {<<>>}
    ELSE RowSeqs(n - 1) \cup
         {Append(r, f) : r \in {x \in RowSeqs(n - 1) : Len(x) = n - 1},
                         f \in SUBSET {"pvalue", "id"}}
Responses ==
    {[arrays |-> FALSE, rows |-> r, keys |-> <<>>, n |-> 0] : r \in RowSeqs(MaxRows)}
        \cup {[arrays |-> TRUE, rows |-> <<>>, keys |-> k, n |-> n] :
                 k \in {<<>>, <<"pvalue">>, <<"id">>, <<"pvalue", "id">>,
                        <<"id", "pvalue">>},
                 n \in 0..MaxRows}

\* The regions a caller asks the sources for, and the chain the LD source
\* is given: the rows of the association source for the region.
CallRegions == {[start |-> s, end |-> s + 1] : s \in 1 .. MaxRegions}
AssocRows(st) ==
    parseResponse("assoc", [key |-> getURL("assoc", st, EmptyChain), good |-> TRUE],
                  EmptyChain, <<"id", "position", "pvalue">>)

\* JSON.stringify of the plot's DataSources and fromJSON of the text into a
\* new collection.
RoundTrip ==
    \E srcs \in {[ns \in Sources |-> SourceOf(ns, cache[ns])]} :
        Do([Begin("fromJSON") EXCEPT
               !.restored = [made |-> TRUE,
                             src |-> DataSources_fromJSON(DataSources_toJSON(srcs)),
                             cold |-> [ns \in Sources |-> ~cache[ns].has],
                             seen |-> NoSeen]])

\* The same (state, fields) is given to the source of a namespace in the
\* plot's collection and, once it is made, in the restored one; each fetch
\* is answered before the next call.
SourceCall ==
    \E ns \in Sources, st \in CallRegions :
        \E chain \in {IF ns = "ld" THEN AssocRows(st) ELSE EmptyChain} :
        \E r1 \in {SourceRequest(SourceOf(ns, cache[ns]), st, chain)},
           r2 \in {SourceRequest(restored.src[ns], st, chain)} :
            Do([Begin("getRequest") EXCEPT
                   !.cache[ns] = r1.src.slot,
                   !.restored =
                       IF ~restored.made
                       THEN [@ EXCEPT !.seen = NoSeen]
                       ELSE [@ EXCEPT !.src[ns] = r2.src,
                                      !.seen = [given |-> TRUE, ns |-> ns,
                                                hit |-> r1.hit, key |-> r1.key,
                                                hit2 |-> r2.hit, key2 |-> r2.key]]])

\* A wheel event over the panel of a plot whose layout has the region
\* scales WideMinScale and WideMaxScale: zoom_handler sets
\* interactions.zooming and renders; generateExtents starts from the
\* state's region and the zoom shifts it against the panel's x scale.
WheelWide ==
    \E delta \in {-1, 1}, x \in Pixels :
        /\ gesture.region # <<>>
        /\ gesture.wheels < MaxWheels
        /\ \E new \in {ZoomShiftWith(gesture.region, gesture.x_extent,
                                     [on |-> TRUE, scale |-> IF delta < 1 THEN 9 ELSE 11,
                                      center |-> x],
                                     WideMinScale, WideMaxScale)} :
               /\ new[2] <= WideMaxPos
               /\ Do([Begin("wheel") EXCEPT
                         !.gesture = [gesture EXCEPT !.x_extent = new,
                                                     !.wheels = @ + 1]])

\* The zoom timeout fires: applyState with the panel's x extent, which
\* validateState constrains to the region scales; the panel renders the
\* new region.
CommitWide ==
    /\ gesture.wheels > 0
    /\ \E c \in {ConstrainRegion(ResolveRegion([start |-> Num(gesture.x_extent[1]),
                                                end |-> Num(gesture.x_extent[2])]),
                                 WideMinScale, WideMaxScale)} :
           Do([Begin("zoom_timeout") EXCEPT
                  !.gesture = [region |-> <<c.start2 \div 2, c.end2 \div 2>>,
                               x_extent |-> <<c.start2 \div 2, c.end2 \div 2>>,
                               wheels |-> 0]])

\* A data layer with some axis layout and some data is asked for the extent
\* of one of its axes.
AxisExtent ==
    /\ ~extent_call.called
    /\ Do([Begin("getAxisExtent") EXCEPT
              !.extent_call =
                  [extent_call EXCEPT
                      !.called = TRUE,
                      !.extent = DataLayer_getAxisExtent(extent_call.layout,
                                                         extent_call.vals,
                                                         extent_call.dimension,
                                                         state)]])

\* A click or a mouse-over on an element that is drawn, on a layer whose
\* layout gives the event one of the directives.
ElementEvent ==
    \E element \in selection.drawn,
       directive \in {"on", "off", "toggle", "toggle_exclusive"} :
        \E r \in {handleElementStatusEvent(selection.list, selection.drawn,
                                           element, directive)} :
            Do([Begin("click") EXCEPT
                   !.selection = [selection EXCEPT
                                     !.list = r.list, !.on = r.on,
                                     !.element = element,
                                     !.directive = directive,
                                     !.before = selection.list]])

\* The layer gets the data of another region and draws it: the list of the
\* state stays as it is (the done-callback of applyState sets the status of
\* the listed elements it finds, lines 5710-5719).
Redraw ==
    \E drawn \in SUBSET Elements \ {{}} :
        /\ drawn # selection.drawn
        /\ Do([Begin("render") EXCEPT
                  !.selection = [selection EXCEPT
                                    !.drawn = drawn, !.element = 0,
                                    !.directive = "", !.on = FALSE,
                                    !.before = <<>>]])

\* The LD source's parseResponse on the chain and the response at hand: the
\* body of the chain it returns is the body merged.
LDParse ==
    /\ ~joined.given
    /\ Do([Begin("parseResponse") EXCEPT
              !.joined = [joined EXCEPT
                             !.given = TRUE,
                             !.body = leftJoin(joined.left, joined.right, 1, 1)]])

\* lzd.getData(state, fields) by a caller that waits for its previous
\* resolution to end.
GetData ==
    \E specs \in FieldLists :
        /\ lzd.phase # "fetching"
        /\ Do([Begin("getData") EXCEPT
                  !.lzd = Requester_getData(lzd, state, specs)])

\* The fetch of that resolution is answered.
DataReturns ==
    \E resp \in Responses :
        /\ lzd.phase = "fetching"
        /\ Do([Begin("response") EXCEPT
                  !.lzd = Requester_response(lzd, state, resp)])

\* The next source of a resolution is asked for its data.
Request ==
    \E o \in OpIds, l \in Layers :
        \E k \in Invocable(l, ops[o].ch[l]) :
            Do(getRequest(Begin("request"), o, l, k))

\* A fetch in flight is answered: with a response that parses, with one
\* that does not, or with an HTTP error.
Response ==
    \E o \in OpIds, l \in Layers :
        \E f \in ops[o].ch[l].fly :
            \/ Do(fetchReturns(Begin("response"), o, l, f, TRUE, TRUE))
            \/ Do(fetchReturns(Begin("response"), o, l, f, TRUE, FALSE))
            \/ Do(fetchReturns(Begin("response"), o, l, f, FALSE, FALSE))

\* Pointer down on a panel's background.
MouseDown ==
    \E p \in PanelsOf(World), x \in Pixels :
        /\ drag_background_to_pan(p)
        /\ Do(toggleDragging(Begin("mousedown"), p, "background", x))

\* touchstart on a panel's background, at the left edge of the clip area:
\* the handler is the mousedown handler.
TouchStart ==
    \E p \in PanelsOf(World) :
        /\ drag_background_to_pan(p)
        /\ Do(toggleDragging(Begin("touchstart"), p, "background", 0))

MouseMove ==
    \E x \in Pixels :
        Do(mousemoveAll(Begin("mousemove"), panel_ids_by_y_index(World), x))

\* Pointer down on a tick of a panel's y1 axis (renderAxis installs the
\* handler on the ticks it drew), at the middle height of the clip area.
TickDown ==
    \E p \in PanelsOf(World) :
        /\ drag_y1_ticks_to_scale(p) /\ panels[p].y1_extent # <<>>
        /\ Do(toggleDraggingAt(Begin("mousedown"), p, "y1_tick", 0, HalfWidth))

\* The pointer moves vertically.
MouseMoveY ==
    \E y \in Pixels :
        Do(mousemoveYAll(Begin("mousemove"), panel_ids_by_y_index(World), y))

\* The panels on which a background drag with displacement is in progress.
DragToCommit(w) ==
    {p \in PanelsOf(w) : LET d == Inter(w, p).dragging
                         IN  d.on /\ d.method = "background" /\ d.dragged_x # 0}

\* Pointer up: every panel's handler runs.
MouseUp ==
    \E x \in Pixels :
        LET w0 == Begin("mouseup")
            w1 == [w0 EXCEPT !.last.committed = DragToCommit(w0)]
        IN  Do(mouseupAll(w1, panel_ids_by_y_index(w1), x))

\* A wheel event over a panel that has rendered (render installs the handler).
Wheel ==
    \E p \in PanelsOf(World), delta \in {-1, 1}, x \in Pixels :
        /\ scroll_to_zoom(p) /\ panels[p].x_extent # <<>>
        /\ Do(zoom_handler(Begin("wheel"), p, delta, x))

\* A wheel event over panel "genes", the pointer at the middle of its clip
\* area.
WheelGenes ==
    \E delta \in {-1, 1} :
        /\ "genes" \in PanelsOf(World)
        /\ scroll_to_zoom("genes") /\ panels["genes"].x_extent # <<>>
        /\ Do(zoom_handler(Begin("wheel"), "genes", delta, HalfWidth))

\* A panel's zoom timeout fires.
ZoomTimeout ==
    \E p \in Panels :
        /\ zoom_timeout[p]
        /\ Do(zoom_commit(Begin("zoom_timeout"), p))

\* The data layers of the panels a caller adds: fed by the network, or
\* static rows.
LayersOfPanel(p) == IF p = "gwas" THEN {"pos"} ELSE {"genes"}
TracksOfPanel(p) == IF p = "gwas" THEN {"track"} ELSE {"marks"}

\* The layouts a caller adds a panel with: without height and proportional
\* height, with a height only, or the panel's standard layout.
StandardPanel ==
    [height |-> FromInt(HalfHeight),
     proportional_height |-> Over(FromInt(1), FromInt(2))]
AddLayouts ==
    {[height |-> Zero, proportional_height |-> Null],
     [height |-> FromInt(HalfHeight \div 2), proportional_height |-> Null],
     StandardPanel}

\* plot.addPanel(layout) by a caller, while no update is outstanding: a
\* standard panel fed by the network.
AddPanel ==
    \E p \in Panels \ PanelsOf(World) :
        Idle /\ DoLayout(addPanel(Begin("addPanel"), p, StandardPanel, LayersOfPanel(p)))

\* plot.addPanel(layout) with a panel of static rows, in any of the layouts.
AddTrackPanel ==
    \E p \in Panels \ PanelsOf(World), lay \in AddLayouts :
        Idle /\ DoLayout(addPanel(Begin("addPanel"), p, lay, TracksOfPanel(p)))

\* The panel is listed no more than once in the y order.
ListedOnce(w, p) ==
    Cardinality({i \in DOMAIN w.layout.order : w.layout.order[i] = p}) <= 1

\* plot.removePanel(id) by a caller, while no update is outstanding.  The
\* model follows the removal of a panel that the y order does not list
\* twice.
RemovePanel ==
    \E p \in PanelsOf(World) :
        /\ Idle
        /\ ListedOnce(World, p)
        /\ DoLayout(removePanel(Begin("removePanel"), p))

\* panel.moveUp() and panel.moveDown() (the panel's dashboard buttons),
\* while no update is outstanding.
MoveUp == \E p \in PanelsOf(World) : Idle /\ DoLayout(moveUp(Begin("moveUp"), p))
MoveDown == \E p \in PanelsOf(World) : Idle /\ DoLayout(moveDown(Begin("moveDown"), p))

\* The y order lists the plot's panels, each of them once.
WellListed ==
    /\ Range(layout.order) = PanelsOf(World)
    /\ Len(layout.order) = Cardinality(PanelsOf(World))

\* The boundary below a panel is dragged by one pixel, up or down.  The
\* model follows the resizing of a plot whose y order lists its panels once.
PanelResize ==
    \E p \in PanelsOf(World), dy \in {-1, 1} :
        Idle /\ WellListed /\ DoLayout(panel_resize_drag(Begin("panel_resize"), p, dy))

\* The plot's corner is dragged by one pixel, up or down: the handler calls
\* plot.setDimensions(width, height).
CornerDrag ==
    \E dy \in {-1, 1} :
        /\ PanelsOf(World) # {}
        /\ Idle
        /\ WellListed
        /\ DoLayout(corner_drag(Begin("setDimensions"), dy))

\* An element of a layer is selected or unselected.
Select ==
    \E l \in present, toggle \in BOOLEAN :
        Do(setElementStatus(Begin("select"), l, toggle))

(***************************************************************************)
(* Specifications.  Each constructs the plot with some of the data layers  *)
(* and lets the handlers run that its claims are about.                    *)
(***************************************************************************)
\* Two panels with one data layer each; callers and the network.
InitData == Starts(populate({"pos", "genes"}, Linked, FALSE))

NextData ==
    \/ MapTo
    \/ Request
    \/ Response

SpecData == InitData /\ [][NextData]_vars

\* One panel whose x extent is the state's region, its layer fed with
\* static data; callers passing any coordinates, the pointer and the wheel.
InitRegionSpec == Starts(populate({"track"}, Linked, FALSE))

NextRegion ==
    \/ ApplyState
    \/ Request
    \/ MouseDown
    \/ MouseMove
    \/ MouseUp
    \/ Wheel
    \/ ZoomTimeout

SpecRegion == InitRegionSpec /\ [][NextRegion]_vars

\* The same plot; callers passing any coordinates, one update at a time.
NextValidate ==
    \/ ApplyRegion
    \/ Request

SpecValidate == InitRegionSpec /\ [][NextValidate]_vars

\* The same plot; callers of LocusZoom.validateState.
NextFunction ==
    \/ ValidateState
    \/ Request

SpecFunction == InitRegionSpec /\ [][NextFunction]_vars

\* A plot with wide region scales, its state a valid region, and the wheel
\* over its panel.
InitWide ==
    \E s \in 1 .. 2, width \in WideMinScale .. WideMaxScale :
        /\ s + width <= WideMaxPos
        /\ Starts([populate({"track"}, Linked, FALSE) EXCEPT
                      !.gesture = [region |-> <<s, s + width>>,
                                   x_extent |-> <<s, s + width>>,
                                   wheels |-> 0]])

NextWide ==
    \/ WheelWide
    \/ CommitWide

SpecWide == InitWide /\ [][NextWide]_vars

\* A response arrives and parses.
ResponseOK ==
    \E o \in OpIds, l \in Layers :
        \E f \in ops[o].ch[l].fly :
            Do(fetchReturns(Begin("response"), o, l, f, TRUE, TRUE))

\* A plot with two layers of the association source, callers whose applyState
\* calls overlap, and a network that answers every fetch; the source's call
\* history is kept.
InitOverlap == Starts(populate({"pos", "pval"}, Linked, TRUE))

NextOverlap ==
    \/ MapTo
    \/ Request
    \/ ResponseOK

SpecOverlap == InitOverlap /\ [][NextOverlap]_vars

\* The two panels fed by the network; callers that map to a region while
\* earlier updates are still fetching, and a user who touches and wheels.
NextBusy ==
    \/ MapTo
    \/ Request
    \/ ResponseOK
    \/ TouchStart
    \/ WheelGenes

SpecBusy == InitData /\ [][NextBusy]_vars

\* The same plot; a user who clicks on the elements of a layer, and the
\* layer drawing other data.
NextStatus ==
    \/ ElementEvent
    \/ Redraw

SpecStatus == InitRegionSpec /\ [][NextStatus]_vars

\* The same plot; its data layers are asked for the extents of their axes.
InitAxis ==
    \E lay \in AxisLayouts, vals \in AxisData, dimension \in {"x", "y"} :
        Starts([populate({"track"}, Linked, FALSE) EXCEPT
                   !.extent_call = [NoAxis EXCEPT !.dimension = dimension,
                                                  !.vals = vals,
                                                  !.layout = lay]])

NextAxis == AxisExtent

SpecAxis == InitAxis /\ [][NextAxis]_vars

\* The same plot; a chain and an LD response, both in ascending order of
\* position, reach the LD source's parseResponse.
InitJoin ==
    \E ps \in Ascending(MaxJoin), qs \in Ascending(MaxJoin) :
        Starts([populate({"track"}, Linked, FALSE) EXCEPT
                   !.joined = [NoJoin EXCEPT
                                  !.left = [i \in DOMAIN ps |->
                                               [pos |-> ps[i], ld |-> 0]],
                                  !.right = qs]])

NextJoin == LDParse

SpecJoin == InitJoin /\ [][NextJoin]_vars

\* The same plot; its DataSources collection is called, serialized and
\* rebuilt.
NextSources ==
    \/ SourceCall
    \/ RoundTrip

SpecSources == InitRegionSpec /\ [][NextSources]_vars

\* The same plot; callers of lzd.getData and the server.
NextFields ==
    \/ GetData
    \/ DataReturns

SpecFields == InitRegionSpec /\ [][NextFields]_vars

\* Two panels with static data, their x axes linked or not; the pointer.
InitDrag ==
    \E linked \in {Linked, Unlinked} :
        Starts(populate({"track", "marks"}, linked, FALSE))

NextDrag ==
    \/ Request
    \/ TouchStart
    \/ MouseMove
    \/ MouseUp

SpecDrag == InitDrag /\ [][NextDrag]_vars

\* The two panels with linked x axes; the pointer and the wheel, the
\* handlers recorded.
InitGesture == Starts(populate({"track", "marks"}, Linked, TRUE))

NextGesture ==
    \/ Request
    \/ TouchStart
    \/ MouseMove
    \/ MouseUp
    \/ WheelGenes
    \/ ZoomTimeout

SpecGesture == InitGesture /\ [][NextGesture]_vars

\* The two panels with their x and y1 axes linked; the drag of a y1 tick
\* and the wheel, the handlers recorded.
InitTicks ==
    Starts([populate({"track", "marks"}, Linked, TRUE) EXCEPT !.y1_linked = Linked])

NextTicks ==
    \/ Request
    \/ TickDown
    \/ MouseMoveY
    \/ MouseUp
    \/ WheelGenes
    \/ ZoomTimeout

SpecTicks == InitTicks /\ [][NextTicks]_vars

\* Two panels of static rows; callers that add, remove, move and resize
\* panels and resize the plot.
InitLayout == Starts(populate({"track", "marks"}, Linked, FALSE))

NextLayout ==
    \/ Request
    \/ AddTrackPanel
    \/ RemovePanel
    \/ MoveUp
    \/ MoveDown
    \/ PanelResize
    \/ CornerDrag

SpecLayout == InitLayout /\ [][NextLayout]_vars

\* The two panels fed by the network; callers that remove and add panels
\* and select elements.
InitRemove == Starts(populate({"pos", "genes"}, Linked, FALSE))

NextRemove ==
    \/ Request
    \/ Response
    \/ AddPanel
    \/ RemovePanel
    \/ Select

SpecRemove == InitRemove /\ [][NextRemove]_vars

\* A plot with one of the data layers that ask more than one source;
\* callers and the network.
InitChain ==
    \E l \in {"pv", "ldfirst", "both"} : Starts(populate({l}, Linked, FALSE))

NextChain ==
    \/ MapTo
    \/ Request
    \/ Response

SpecChain == InitChain /\ [][NextChain]_vars

\* A plot whose two data layers ask the same source for different fields;
\* callers and the network; the sources' call history is kept.
InitCache == Starts(populate({"pos", "pval"}, Linked, TRUE))

NextCache ==
    \/ MapToNext
    \/ MapToInitial
    \/ Request
    \/ Response

SpecCache == InitCache /\ [][NextCache]_vars

(***************************************************************************)
(* Claims about applyState and the refresh it starts (SpecData)            *)
(***************************************************************************)
\* The region a body of rows was fetched for.
RegionOf(body) == <<Head(body).key[2], Head(body).key[3]>>
StateRegion == <<state.start, state.end>>

\* C1: applyState hands its caller a completion signal (a promise); the
\* signal resolves when every panel was refetched and re-rendered and is
\* rejected when a panel's data resolution failed.
C1_CompletionSignal ==
    /\ last.updates >= 1 => last.returned = "promise"
    /\ last.settled =>
          last.completion = IF last.failed = {} THEN "fulfilled" ELSE "rejected"

\* C2: when a request or a parse failed during a refresh, the refresh
\* re-rendered no panel and gave no data layer new data.
C2_NoPartialRerender ==
    (last.settled /\ last.failed # {}) => (last.rendered = {} /\ last.fresh = {})

\* C9: a new applyState cancels nothing: every fetch in flight when it
\* starts is still in flight, unchanged, after it.
C9_NotCancelled ==
    [][\A o \in OpIds, l \in Layers :
          (ops[o].ch[l].fly # {} /\ last'.updates >= 1)
              => ops'[o].ch[l] = ops[o].ch[l]]_vars

\* C9 (witness): the resolution of an earlier applyState has just stored,
\* and its panel rendered, rows of a superseded region over the rows of the
\* region the state holds.
C9_StaleData ==
    /\ last.wrote # "" /\ last.over # <<>>
    /\ RegionOf(last.over) = StateRegion
    /\ RegionOf(data[last.wrote]) # StateRegion
    /\ PanelOf(last.wrote) \in last.rendered

(***************************************************************************)
(* Claims about one resolution of the Requester (SpecChain)                *)
(***************************************************************************)
\* The namespaces of a layer's fields and the place where each is first named.
NsSet(l) == {NsOf(LayerFields(l)[i]) : i \in DOMAIN LayerFields(l)}
FirstAt(l, ns) ==
    CHOOSE i \in DOMAIN LayerFields(l) :
        /\ NsOf(LayerFields(l)[i]) = ns
        /\ \A j \in 1 .. i - 1 : NsOf(LayerFields(l)[j]) # ns
NamedBefore(l, ns) == {m \in NsSet(l) : FirstAt(l, m) < FirstAt(l, ns)}

\* C4: the i-th source called in a resolution is the i-th namespace in the
\* order the fields name them, the first is called with the empty chain and
\* every other one with the chain the source before it delivered.
C4_DeclarationOrder ==
    \A o \in OpIds, l \in Layers :
        LET c == ops[o].ch[l]
        IN  \A i \in DOMAIN c.calls :
                /\ c.calls[i].ns \in NsSet(l)
                /\ Cardinality(NamedBefore(l, c.calls[i].ns)) = i - 1
                /\ i = 1 => c.calls[i].input = EmptyChain
                /\ i > 1 => /\ i - 1 \in DOMAIN c.outs
                            /\ c.calls[i].input = c.outs[i - 1]

\* C4 (witness): the ld source, named second, has been called with the rows
\* the association source delivered and its fetch is in flight.
C4_LdGivenAssocRows ==
    \E o \in OpIds :
        LET c == ops[o].ch["pv"]
        IN  /\ Len(c.calls) = 2 /\ c.calls[2].ns = "ld"
            /\ c.calls[2].input.body # <<>>
            /\ c.fly # {}

\* C26: a resolution that names ld before assoc (layer ldfirst) is rejected
\* at the call of the LD source, its first, which finds no association rows
\* to pick the best p-value from: no fetch is issued, the association
\* source is never called and the layer gets no data; in the order assoc
\* then ld (layer pv) the LD query is built from the rows the association
\* source delivered into the chain.
C26_LdLookupNeedsAssocRows ==
    /\ \A o \in OpIds :
           LET c == ops[o].ch["ldfirst"]
           IN  c.phase # "ok" /\ c.calls = <<>> /\ c.fly = {}
    /\ last.ended.layer = "ldfirst" =>
           /\ last.ended.how = "err"
           /\ last.ended.at = 1
           /\ last.ended.fly = {}
    /\ data["ldfirst"] = <<>>
    /\ \A o \in OpIds :
           LET c == ops[o].ch["pv"]
           IN  \A f \in c.fly :
                   Reqs("pv")[f.k].ns = "ld" =>
                       /\ f.k = 2
                       /\ c.calls[1].ns = "assoc"
                       /\ f.input = c.outs[1]
                       /\ f.input.body # <<>>
                       /\ Len(f.key) = 4
                       /\ f.key[4] = Head(c.outs[1].body).key

\* C26 (witness): the resolution of layer ldfirst has just been rejected at
\* its first source.
C26_LdFirstRejected ==
    /\ last.ended.layer = "ldfirst"
    /\ last.ended.how = "err"
    /\ last.ended.at = 1

\* C5: a resolution has at most one fetch in flight, and it is the fetch of
\* the source that follows those that have delivered their chain.
C5_OneFetchInFlight ==
    \A o \in OpIds, l \in Layers :
        LET c == ops[o].ch[l]
        IN  /\ Cardinality(c.fly) <= 1
            /\ \A f \in c.fly : f.k = c.done + 1 /\ Len(c.outs) = c.done
            /\ c.asked \subseteq 1 .. c.done + 1

\* C5 (witness): the fetch of a second source is in flight, the first
\* source's response having been received and parsed.
C5_SecondFetchInFlight ==
    \E o \in OpIds, l \in Layers :
        \E f \in ops[o].ch[l].fly : f.k = 2 /\ ops[o].ch[l].done = 1

\* C6: when source k of a resolution fails, the resolution ends there: no
\* source after k has been called, nothing of it is still in flight and
\* the layer's data is what it was.
C6_FailureEndsResolution ==
    [][last'.ended.how = "err" =>
          /\ data' = data
          /\ last'.ended.asked = 1 .. last'.ended.at
          /\ last'.ended.fly = {}
          /\ \A o \in OpIds : ops'[o].ch[last'.ended.layer].phase # "run"
                                  \/ ops'[o].ch[last'.ended.layer] = ops[o].ch[last'.ended.layer]]_vars

\* C6 (witness): the second source of a resolution has failed after the
\* first one delivered, while the layer holds rows of an earlier refresh.
C6_SecondSourceFailed ==
    /\ last.ended.how = "err" /\ last.ended.at = 2
    /\ data[last.ended.layer] # <<>>

(***************************************************************************)
(* Claims about a source's cache slot (SpecCache)                          *)
(***************************************************************************)
\* What a getData call yields: the parsed chain, or an error.
ResultOf(ns, got, resp, input, fields) ==
    IF got /\ ParseOK(resp)
    THEN [ok |-> TRUE, chain |-> parseResponse(ns, resp, input, fields)]
    ELSE [ok |-> FALSE, chain |-> EmptyChain]

\* The call that started in this step follows a completed call of the same
\* source, no other call of the source being under way, with an equal key.
SecondCall ==
    last.call.ns # "" /\ last.call.after /\ last.call.key = last.call.prev.key

\* C7 (as claimed): the second of two consecutive getData calls with equal
\* cache keys is answered from the cache, without a fetch, and yields the
\* parsed result the first call yielded.
C7_SecondCallSameResult ==
    SecondCall =>
        /\ last.call.hit
        /\ ResultOf(last.call.ns, TRUE, last.call.resp, last.call.input,
                    last.call.fields)
           = ResultOf(last.call.ns, last.call.prev.got, last.call.prev.resp,
                      last.call.prev.input, last.call.prev.fields)

\* C7 (amended): if the first call obtained a response, the second call is
\* answered from the cache, without a fetch, with that same response.
C7_SecondCallFromCache ==
    (SecondCall /\ last.call.prev.got) =>
        /\ last.call.hit
        /\ last.call.resp = last.call.prev.resp

\* C7 (witness): a call answered from the cache with the response of the
\* call before it, which had asked for other fields.
C7_CacheHitOtherFields ==
    /\ SecondCall /\ last.call.prev.got /\ last.call.hit
    /\ last.call.fields # last.call.prev.fields

\* C8 (as claimed): a request whose key differs from the cached key evicts
\* the cached entry: after it the slot no longer holds the old key.
C8_DistinctKeyEvicts ==
    (last.resp.ns # "" /\ last.resp.before.has
        /\ last.resp.key # last.resp.before.key)
    => cache[last.resp.ns].key # last.resp.before.key

\* C8 (amended): a fetch that succeeds leaves its own key and response as the
\* slot's single entry; a fetch that fails leaves the slot as it was.
C8_SuccessfulFetchReplaces ==
    last.resp.ns # "" =>
        IF last.resp.ok
        THEN /\ cache[last.resp.ns].has
             /\ cache[last.resp.ns].key = last.resp.key
             /\ cache[last.resp.ns].resp.key = last.resp.key
        ELSE cache[last.resp.ns] = last.resp.before

\* C8 (witness): a successful fetch for another key has replaced the entry.
C8_EntryReplaced ==
    /\ last.resp.ns # "" /\ last.resp.ok /\ last.resp.before.has
    /\ last.resp.key # last.resp.before.key
    /\ cache[last.resp.ns].key = last.resp.key

(***************************************************************************)
(* Claims about the validated state (SpecRegion)                           *)
(***************************************************************************)
\* C3: after every applyState (by a caller, a drag commit or a zoom commit)
\* start and end are whole numbers >= 1 with start <= end, and the width of
\* the region lies within [min_region_scale, max_region_scale].
C3_StateValid ==
    last.updates >= 1 =>
        /\ state.whole
        /\ state.start >= 1 /\ state.end >= 1
        /\ state.start <= state.end
        /\ MinRegionScale <= state.end - state.start
        /\ state.end - state.start <= MaxRegionScale

\* C3 (witness): a pointer-up has committed a drag whose shifted extent was
\* not a valid region, and validation changed it.
C3_CommitClamped ==
    /\ last.event = "mouseup" /\ last.committed # {} /\ last.updates = 1
    /\ xaxis["track"].set
    /\ <<xaxis["track"].floor, xaxis["track"].ceiling>> # StateRegion

(***************************************************************************)
(* Claims about committing a drag (SpecDrag)                               *)
(***************************************************************************)
\* C10: a pointer-up that commits a background drag with non-zero
\* displacement produces exactly one state update, never zero and never two.
C10_ExactlyOneUpdate ==
    (last.event = "mouseup" /\ last.committed # {}) => last.updates = 1

\* The panel on which the drag in progress was started has moved it.
DraggedPanel(p) ==
    /\ p \in PanelsOf(World)
    /\ Inter(World, p).dragging.on
    /\ Inter(World, p).dragging.panel_id = p
    /\ OnX(Inter(World, p).dragging)
    /\ Inter(World, p).dragging.dragged_x # 0

\* C11: when a drag of a panel's x axis ends with non-zero displacement,
\* every data layer of that panel has the committed extent (the panel's
\* shifted x extent) as its x floor and ceiling.
C11_DragOverridesAxis ==
    [][\A p \in Panels :
          (last'.event = "mouseup" /\ DraggedPanel(p))
          => \A l \in data_layers(World, p) :
                 /\ xaxis'[l].set
                 /\ <<xaxis'[l].floor, xaxis'[l].ceiling>> = panels[p].x_extent]_vars

C14_DragZoomExclusive ==
    \A p \in Panels :
        ~(Inter(World, p).dragging.on /\ Inter(World, p).zooming.on)

\* C14 (witness): the pointer went up (each panel's handler tried to start a
\* drag) while both panels referred to one interaction object that was
\* zooming with the timeout pending; no drag began.
C14_NoDragWhileZooming ==
    /\ last.event = "mouseup"
    /\ iref["gwas"] = iref["genes"]
    /\ Inter(World, "gwas").zooming.on
    /\ zoom_timeout["genes"]
    /\ ~Inter(World, "gwas").dragging.on


\* The plot has come to rest: no drag or zoom is under way on any panel, no
\* zoom timeout is pending, no update is outstanding and every panel has
\* rendered its y1 axis.
AtRest ==
    /\ Idle
    /\ \A p \in PanelsOf(World) :
          /\ ~Inter(World, p).dragging.on
          /\ ~Inter(World, p).zooming.on
          /\ ~zoom_timeout[p]
          /\ panels[p].y1_extent # <<>>

\* C15: the extent committed on a linked axis is applied to every sibling
\* with the same link flag, for the drag of a y tick too.  Whenever the plot
\* is at rest, the y1 extent that a tick drag committed to the layers of a
\* y1-linked panel is the y1 extent of every y1-linked panel.
C15_CommitReachesLinkedSiblings ==
    AtRest =>
        \A p, q \in PanelsOf(World) :
            (y1_linked[p] /\ y1_linked[q]) =>
                \A l \in data_layers(World, p) :
                    yaxis[l].set =>
                        panels[q].y1_extent = <<yaxis[l].floor, yaxis[l].ceiling>>

\* The axes on which panel q is linked.
LinkedAxes(q) == {i \in DOMAIN Axes : LinkedOn(World, Axes[i], q)}

\* C16 as stated: the render a gesture handler makes re-renders each linked
\* sibling at most once in broadcast mode.
C16_SiblingRenderedOnce ==
    last.event \in {"mousemove", "wheel"} =>
        \A q \in Panels : last.bcast[q] <= 1

\* C16: broadcast propagation is finite.  The render a gesture handler makes
\* re-renders a sibling in broadcast mode at most once for every axis the
\* sibling is linked on, and the renders in broadcast mode re-render nothing
\* themselves: the rendering panel is not rendered again.
C16_OncePerLinkedAxis ==
    last.event \in {"mousemove", "wheel"} =>
        /\ \A q \in Panels : last.bcast[q] <= Cardinality(LinkedAxes(q))
        /\ \E p \in Panels : last.bcast[p] = 0

\* A wheel event over a panel linked on both axes rendered its sibling twice.
C16_SiblingRenderedTwice ==
    /\ last.event = "wheel"
    /\ last.bcast["gwas"] = 2
    /\ last.bcast["genes"] = 0

(***************************************************************************)
(* Claims about the vertical layout (SpecLayout).                          *)
(***************************************************************************)
\* The sum of the panels' proportional heights, as plot.sumProportional
\* adds them up.
ProportionalTotal == sumProportional(layout, layout.keys, Zero).total

\* C17: after every layout pass on a plot with one panel or more, the
\* panels' proportional heights sum to exactly 1.  (Every state of
\* SpecLayout follows a layout pass: populate, addPanel, removePanel,
\* moveUp, moveDown and the drag of a panel boundary all end in
\* positionPanels, and nothing else writes a proportional height.)
C17_ProportionsSumToOne ==
    (Idle /\ PanelsOf(World) # {}) => ProportionalTotal = FromInt(1)


\* The pixel heights of the panels above place i of the y order, added up.
RECURSIVE HeightAbove(_)
HeightAbove(i) ==
    IF i = 1 THEN 0
    ELSE HeightAbove(i - 1) + Round(layout.panel[layout.order[i - 1]].height)

\* C18: after the plot is resized (plot.setDimensions(width, height)), for
\* the panels in the order of their y index: each panel's pixel height is
\* its proportional height times the plot's height, and its origin is the
\* sum of the pixel heights of the panels above it.
C18_PanelsTileThePlot ==
    last.event = "setDimensions" =>
        \A i \in DOMAIN layout.order :
            LET P == layout.panel[layout.order[i]]
            IN  /\ P.height = Times(P.proportional_height, layout.height)
                /\ P.origin = HeightAbove(i)


(***************************************************************************)
(* Claims about removePanel (SpecRemove).                                  *)
(***************************************************************************)
\* The sources that the data of layer l comes from.
SourcesOfLayer(l) == {NsOf(LayerFields(l)[i]) : i \in DOMAIN LayerFields(l)}

\* The step removes panel p.
Removes(p) == p \in PanelsOf(World) /\ p \notin {PanelOf(l) : l \in present'}

\* After the step the state holds no sub-namespace of panel p or of its
\* data layers, and every other sub-namespace is as it was.
StateLosesOnly(p) ==
    /\ ~substate'.panel[p]
    /\ \A l \in data_layers(World, p) : ~substate'.layer[l].has
    /\ \A q \in Panels \ {p} : substate'.panel[q] = substate.panel[q]
    /\ \A l \in Layers \ data_layers(World, p) :
           substate'.layer[l] = substate.layer[l]

\* C19: after removePanel(id) the state holds no sub-namespace of the
\* removed panel or of its data layers, the cache entries of the removed
\* panel's data are gone, and the sub-namespaces of the remaining panels
\* and layers are unchanged.
C19_RemovalClearsStateAndCache ==
    [][\A p \in Panels : Removes(p) =>
          /\ StateLosesOnly(p)
          /\ \A l \in data_layers(World, p) :
                 \A s \in SourcesOfLayer(l) : ~cache'[s].has]_vars


(***************************************************************************)
(* Claims about validateState on flipped regions (SpecValidate).           *)
(***************************************************************************)
\* The region passed to the applyState call that has just run has whole
\* positions with start > end, which would satisfy the layout's region
\* scales if they were exchanged.
FlippedRegion ==
    /\ last.raw.given
    /\ last.raw.start \in Positions /\ last.raw.end \in Positions
    /\ last.raw.start.half > last.raw.end.half
    /\ (last.raw.start.half - last.raw.end.half) \div 2 >= MinRegionScale
    /\ (last.raw.start.half - last.raw.end.half) \div 2 <= MaxRegionScale

\* C20: for every region state with start > end, validateState exchanges
\* the two: afterwards start is the original end, end is the original
\* start, and start <= end.
C20_FlippedRegionSwapped ==
    FlippedRegion =>
        /\ state.start = last.raw.end.half \div 2
        /\ state.end = last.raw.start.half \div 2
        /\ state.start <= state.end


\* The region passed to the applyState call that has just run gives two
\* numbers that are closer than the layout's minimum region scale (after
\* parseInt and the floor of 1).
NarrowRegion ==
    /\ last.raw.given
    /\ ~last.raw.start.nan /\ ~last.raw.end.nan
    /\ MaxParseInt(last.raw.end) - MaxParseInt(last.raw.start) < MinRegionScale

\* Twice the midpoint of that region.
TwiceMidpoint == MaxParseInt(last.raw.start) + MaxParseInt(last.raw.end)

\* C21 as stated: for a region narrower than min_region_scale the
\* validated width is exactly min_region_scale and the region is centered
\* on the original midpoint, except that start is clamped to 1.
C21_CenteredOnMidpoint ==
    NarrowRegion =>
        /\ state.end - state.start = MinRegionScale
        /\ IF TwiceMidpoint - MinRegionScale < 2 THEN state.start = 1
           ELSE 2 * state.start + MinRegionScale = TwiceMidpoint

\* C21 as the code has it: the width is exactly min_region_scale, start is
\* 1 or more, and the region's center is the original midpoint or above
\* it, by at most one position where start is not clamped (the midpoint is
\* rounded to a whole position, then floor(min_region_scale / 2) is taken
\* off).
C21_CenteredOnRoundedMidpoint ==
    NarrowRegion =>
        /\ state.end - state.start = MinRegionScale
        /\ state.start >= 1
        /\ 2 * state.start + MinRegionScale >= TwiceMidpoint
        /\ state.start > 1 =>
               2 * state.start + MinRegionScale
                   <= TwiceMidpoint + 1 + (MinRegionScale % 2)

\* A narrow region with a midpoint between two positions was validated
\* without clamping.
C21_HalfMidpointWidened ==
    /\ NarrowRegion
    /\ TwiceMidpoint % 2 = 1
    /\ state.start > 1
    /\ state.end - state.start = MinRegionScale


(***************************************************************************)
(* Claims about validateState as a function (SpecFunction).                *)
(***************************************************************************)
\* A whole number as a raw coordinate.
Whole(n) == [nan |-> FALSE, half |-> 2 * n]

\* C22: for a state with chr, start and end (and a layout without region
\* scales) validateState replaces start and end by their integer
\* truncations raised to at least 1; when exactly one of the two is not a
\* number it gets the other's value, when both are not numbers both become
\* 1; a state lacking chr, start or end is returned untouched.
C22_TruncatedAndFloored ==
    LET v   == last.validated
        in  == v.input
        out == v.output
    IN  (v.given /\ ~v.limits) =>
            IF ~(in.has_chr /\ in.has_start /\ in.has_end)
            THEN out.start = in.start /\ out.end = in.end
            ELSE IF in.start.nan /\ in.end.nan
            THEN out.start = Whole(1) /\ out.end = Whole(1)
            ELSE IF in.start.nan
            THEN out.start = Whole(MaxParseInt(in.end))
                 /\ out.end = Whole(MaxParseInt(in.end))
            ELSE IF in.end.nan
            THEN out.start = Whole(MaxParseInt(in.start))
                 /\ out.end = Whole(MaxParseInt(in.start))
            ELSE out.start = Whole(MaxParseInt(in.start))
                 /\ out.end = Whole(MaxParseInt(in.end))


(***************************************************************************)
(* Claims about field specs, transformations and parsing (SpecFields).     *)
(***************************************************************************)
\* A field spec of the resolution names a transformation that is not
\* registered.
UnknownTransform ==
    \E j \in DOMAIN lzd.specs :
        \E k \in DOMAIN lzd.specs[j].trans : lzd.specs[j].trans[k] \notin Registered

\* C23: a field spec whose chain of transformations holds an unknown name,
\* in any position, makes getData fail synchronously when the field spec is
\* resolved: no fetch is issued and no record is processed.
C23_UnknownTransformFailsAtResolution ==
    UnknownTransform =>
        /\ lzd.phase = "threw"
        /\ lzd.error.kind = "transformation not found"
        /\ ~lzd.fetched

\* tn(...t2(t1(raw))...)
RECURSIVE Composed(_, _)
Composed(names, raw) ==
    IF names = <<>> THEN raw
    ELSE ApplyTrans(names[Len(names)],
                    Composed(SubSeq(names, 1, Len(names) - 1), raw)).val

\* C24: in every record of a resolved resolution the value of a field
\* spec field|t1|...|tn is tn(...t2(t1(raw))...), and the raw value itself
\* for a field spec without transformations.
C24_TransformsApplyLeftToRight ==
    lzd.phase = "resolved" =>
        \A i \in DOMAIN lzd.records :
            \A j \in DOMAIN lzd.specs :
                lzd.records[i][j] =
                    Composed(lzd.specs[j].trans,
                             ValueAt(lzd.response, i, lzd.specs[j].field))

\* A resolution with two different transformations on a field and one
\* without any gave a record.
C24_ChainedAndPlainStored ==
    /\ lzd.phase = "resolved"
    /\ lzd.records # <<>>
    /\ Len(lzd.specs) = 2
    /\ lzd.specs[1].trans = <<"neglog10", "scinotation">>
    /\ lzd.specs[2].trans = <<>>
    /\ lzd.records[1][1].by = <<"neglog10", "scinotation">>
    /\ lzd.records[1][2] = RawValue(1, "id")

\* The requested fields the parsed response does not have: no key of an
\* object of arrays, in no object of an array of objects.
MissingFields ==
    {j \in DOMAIN lzd.specs :
        IF lzd.response.arrays
        THEN \A k \in DOMAIN lzd.response.keys :
                 lzd.response.keys[k] # lzd.specs[j].field
        ELSE \A i \in DOMAIN lzd.response.rows :
                 lzd.specs[j].field \notin lzd.response.rows[i]}

\* C25: when a parsed response lacks a requested field the resolution is
\* rejected with the error that names that field and its output name; when
\* it has every requested field this error is never thrown.
C25_MissingFieldRejected ==
    lzd.phase \in {"resolved", "rejected"} =>
        IF MissingFields # {}
        THEN /\ lzd.phase = "rejected"
             /\ lzd.error.kind = "field not found"
             /\ \E j \in MissingFields :
                    /\ lzd.error.name = lzd.specs[j].field
                    /\ lzd.error.outname = lzd.specs[j]
        ELSE lzd.error.kind # "field not found"


(***************************************************************************)
(* Claims about the DataSources round trip (SpecSources).                  *)
(***************************************************************************)
\* Every restored source has the type of the plot's source of its
\* namespace, and the call given to both built the same query.
SameTypeAndQuery ==
    /\ \A ns \in Sources : restored.src[ns].type = SOURCE_NAME(ns)
    /\ restored.seen.given => restored.seen.key2 = restored.seen.key

\* C27: a collection rebuilt with fromJSON from the JSON text of the plot's
\* has, for every namespace, a source of the same type that builds the same
\* query and decides hit or miss as the plot's source does, on every call
\* given to both.
C27_RoundTripSameDecisions ==
    restored.made =>
        /\ SameTypeAndQuery
        /\ restored.seen.given => restored.seen.hit2 = restored.seen.hit

\* C27 (amended): the same, the decisions for the namespaces whose source
\* had nothing cached when the collection was serialized.
C27_RoundTripSameDecisionsFromCold ==
    restored.made =>
        /\ SameTypeAndQuery
        /\ (restored.seen.given /\ restored.cold[restored.seen.ns]) =>
               restored.seen.hit2 = restored.seen.hit

\* Both collections answered a call from the cache, the restored source
\* having been made from one with nothing cached.
C27_BothHitAfterColdRoundTrip ==
    /\ restored.made
    /\ restored.seen.given
    /\ restored.cold[restored.seen.ns]
    /\ restored.seen.hit
    /\ restored.seen.hit2


(***************************************************************************)
(* Claims about the region shown during a wheel zoom (SpecWide).           *)
(***************************************************************************)
\* C28: while a zoom is under way on a panel, after any number of wheel
\* events, the width of the panel's shifted x extent is at least
\* min_region_scale and at most max_region_scale.
C28_ZoomWithinRegionScales ==
    gesture.wheels > 0 =>
        /\ gesture.x_extent[2] - gesture.x_extent[1] >= WideMinScale
        /\ gesture.x_extent[2] - gesture.x_extent[1] <= WideMaxScale

\* The lower half of C28 alone.
C28_ZoomNotBelowMinimum ==
    gesture.wheels > 0 =>
        gesture.x_extent[2] - gesture.x_extent[1] >= WideMinScale


(***************************************************************************)
(* Claims about the start and the end of a drag (SpecDrag).                *)
(***************************************************************************)
DragMethods == {"background", "x_tick", "y1_tick", "y2_tick"}

\* C29: a panel is dragging only from a pointer-down on: the method of
\* every drag under way is background, x_tick, y1_tick or y2_tick, and
\* after a pointer-up no panel is dragging (the dragged panel has ended its
\* drag, an idle panel has stayed idle).
C29_DragOnlyFromPointerDown ==
    \A p \in PanelsOf(World) :
        /\ interactions[iref[p]].dragging.on =>
               interactions[iref[p]].dragging.method \in DragMethods
        /\ last.event = "mouseup" => ~interactions[iref[p]].dragging.on

\* Panel p is being dragged along x and the pointer is where the drag
\* began; no other drag under way has moved.
UnmovedDrag(p) ==
    /\ p \in PanelsOf(World)
    /\ Inter(World, p).dragging.on
    /\ Inter(World, p).dragging.panel_id = p
    /\ OnX(Inter(World, p).dragging)
    /\ Inter(World, p).dragging.dragged_x = 0
    /\ \A q \in Panels : interactions[q].dragging.dragged_x = 0

\* A pointer-up that ends an unmoved drag of panel p changes no axis
\* configuration and no state and starts no refresh.
CommitsNothing(p) ==
    (last'.event = "mouseup" /\ UnmovedDrag(p)) =>
        /\ xaxis' = xaxis /\ yaxis' = yaxis
        /\ state' = state
        /\ ops' = ops /\ loading_data' = loading_data
        /\ last'.updates = 0

\* C30: the pointer-up that ends a drag without net displacement commits
\* nothing (no axis configuration of a data layer changes, the state is
\* unchanged, no applyState and no fetch is started) and leaves the dragged
\* panel idle.
C30_UnmovedDragCommitsNothing ==
    [][\A p \in Panels :
          /\ CommitsNothing(p)
          /\ (last'.event = "mouseup" /\ UnmovedDrag(p)) =>
                 ~interactions'[iref'[p]].dragging.on]_vars

\* The first half of C30 alone.
C30_UnmovedDragLeavesStateAlone == [][\A p \in Panels : CommitsNothing(p)]_vars


(***************************************************************************)
(* Claims about the cache slot under overlapping requests (SpecData).      *)
(***************************************************************************)
\* C31: in every state the response in a source's cache slot is the
\* response fetched for the key in the slot, whatever requests of the
\* source are in flight and in whatever order they complete, and a call
\* answered from the cache gets a response fetched for its own key.
C31_SlotHoldsResponseOfItsKey ==
    /\ \A ns \in Sources : cache[ns].has => cache[ns].resp.key = cache[ns].key
    /\ (last.call.ns # "" /\ last.call.hit) => last.call.resp.key = last.call.key

\* C31 (witness): a response has been stored in the slot of a source while
\* a fetch of that source for another key is still in flight.
C31_StoredWhileOtherKeyInFlight ==
    /\ last.resp.ns # "" /\ last.resp.ok
    /\ cache[last.resp.ns].has
    /\ \E o \in OpIds, l \in Layers :
           \E f \in ops[o].ch[l].fly :
               /\ Reqs(l)[f.k].ns = last.resp.ns
               /\ f.key # last.resp.key


(***************************************************************************)
(* Claims about overlapping requests with different keys (SpecOverlap).    *)
(***************************************************************************)
\* C32: once no fetch of a source is in flight, the source's cache slot
\* holds the entry of the fetch that was issued last, in whatever order the
\* fetches completed.
C32_SlotHoldsLastIssued ==
    \A ns \in Sources :
        (lastcall[ns].issued # NoKey /\ ~Fetching(World, ns)) =>
            /\ cache[ns].has
            /\ cache[ns].key = lastcall[ns].issued

\* The cache slot holds the entry of the fetch that completed last.
C32_SlotHoldsLastCompleted ==
    \A ns \in Sources :
        (last.resp.ns = ns /\ last.resp.ok) =>
            /\ cache[ns].has
            /\ cache[ns].key = last.resp.key


(***************************************************************************)
(* Claims about the LD merge (SpecJoin).                                   *)
(***************************************************************************)
\* The merge kept the body's rows and their order.
RowsKept ==
    /\ Len(joined.body) = Len(joined.left)
    /\ \A i \in DOMAIN joined.left : joined.body[i].pos = joined.left[i].pos

\* C33: for a body and an LD response in ascending order of position the
\* merge gives an LD value, the one at that position of the response, to
\* exactly the body rows whose position is a position of the response,
\* leaves the other rows without one and keeps the rows and their order.
C33_JoinOnEqualPositions ==
    joined.given =>
        /\ RowsKept
        /\ \A i \in DOMAIN joined.body :
               IF \E j \in DOMAIN joined.right : joined.right[j] = joined.body[i].pos
               THEN /\ joined.body[i].ld \in DOMAIN joined.right
                    /\ joined.right[joined.body[i].ld] = joined.body[i].pos
               ELSE joined.body[i].ld = 0

\* The same for bodies and responses without equal positions.
C33_JoinOnDistinctPositions ==
    (/\ \A i, k \in DOMAIN joined.left :
            i < k => joined.left[i].pos < joined.left[k].pos
     /\ \A j, k \in DOMAIN joined.right : j < k => joined.right[j] < joined.right[k])
    => C33_JoinOnEqualPositions


(***************************************************************************)
(* Claims about the extent of an axis (SpecAxis).                          *)
(***************************************************************************)
\* The axis layout getAxisExtent was called with.
Called == extent_call.layout

\* The extent before a single floor or ceiling is applied: the raw extent of
\* the data, widened by the buffers and to include min_extent.
Widened ==
    LET vals == Range(extent_call.vals)
        lo  == CHOOSE v \in vals : \A u \in vals : v <= u
        hi  == CHOOSE v \in vals : \A u \in vals : v >= u
        lob == IF Called.lower_buffer = <<>> THEN lo
               ELSE Min2(lo, lo - (hi - lo) * Called.lower_buffer[1])
        hib == IF Called.upper_buffer = <<>> THEN hi
               ELSE Max2(hi, hi + (hi - lo) * Called.upper_buffer[1])
    IN  IF Called.min_extent = <<>> THEN <<lob, hib>>
        ELSE <<Min2(lob, Min2(Called.min_extent[1], Called.min_extent[2])),
               Max2(hib, Max2(Called.min_extent[1], Called.min_extent[2]))>>

BothBounds == Called.floor # <<>> /\ Called.ceiling # <<>>
FromData == ~BothBounds /\ Called.field /\ extent_call.vals # <<>>

\* C34: the extent of an axis is floor and ceiling when both are set;
\* otherwise the extent of the data, widened by the buffers and to include
\* min_extent, and then restricted, never widened, by the one of floor and
\* ceiling that is set; without data it is the state's region for the x
\* axis and empty for another axis.
C34_ExtentByOrderedRules ==
    extent_call.called =>
        extent_call.extent =
            IF BothBounds THEN <<Called.floor[1], Called.ceiling[1]>>
            ELSE IF FromData
            THEN <<IF Called.floor = <<>> THEN Widened[1]
                   ELSE Max2(Widened[1], Called.floor[1]),
                   IF Called.ceiling = <<>> THEN Widened[2]
                   ELSE Min2(Widened[2], Called.ceiling[1])>>
            ELSE IF extent_call.dimension = "x" THEN <<state.start, state.end>>
            ELSE <<>>

\* The same with the one of floor and ceiling that is set taken as the bound
\* itself, whether it restricts or widens the extent.
C34_ExtentWithBoundReplaced ==
    extent_call.called =>
        extent_call.extent =
            IF BothBounds THEN <<Called.floor[1], Called.ceiling[1]>>
            ELSE IF FromData
            THEN <<IF Called.floor = <<>> THEN Widened[1]
                   ELSE Called.floor[1],
                   IF Called.ceiling = <<>> THEN Widened[2]
                   ELSE Called.ceiling[1]>>
            ELSE IF extent_call.dimension = "x" THEN <<state.start, state.end>>
            ELSE <<>>


(***************************************************************************)
(* Claims about the y order of the panels (SpecLayout).                    *)
(***************************************************************************)
\* The y order lists no panel twice.
YOrderWithoutDuplicates ==
    \A i, j \in DOMAIN layout.order : layout.order[i] = layout.order[j] => i = j

\* C35: after any sequence of addPanel, removePanel, moveUp and moveDown
\* the y order lists exactly the plot's panels, none of them twice, and every
\* panel's layout.y_index is its place in the y order.
C35_YOrderMatchesYIndexes ==
    /\ YOrderWithoutDuplicates
    /\ Range(layout.order) = PanelsOf(World)
    /\ \A i \in DOMAIN layout.order : y_index[layout.order[i]] = i - 1

\* The y order lists exactly the plot's panels, whatever their y_index.
C35_YOrderListsThePanels == Range(layout.order) = PanelsOf(World)


(***************************************************************************)
(* Claims about gestures while updates are fetching (SpecBusy).            *)
(***************************************************************************)
\* Some applyState's promise has not completed.
Outstanding == \E o \in OpIds : ops[o].active /\ ~ops[o].done

\* Some panel enters dragging or zooming in this step.
GestureBegins ==
    \E p \in Panels :
        \/ ~interactions[p].dragging.on /\ interactions'[p].dragging.on
        \/ ~interactions[p].zooming.on /\ interactions'[p].zooming.on

\* C36: while the fetches of any applyState have not completed, of one or of
\* several that overlap, the loading flag is set and no panel enters
\* dragging or zooming.
C36_NoGestureWhileFetching ==
    [][Outstanding => loading_data /\ ~GestureBegins]_vars

\* While the loading flag is set no panel enters dragging or zooming.
C36_NoGestureWhileLoading == [][loading_data => ~GestureBegins]_vars

\* While the fetches of some applyState have not completed no panel enters
\* dragging or zooming, whatever the loading flag.
C36_NoGestureBeginsWhileFetching == [][Outstanding => ~GestureBegins]_vars


(***************************************************************************)
(* Claims about the fetches of one update (SpecCache).                     *)
(***************************************************************************)
\* The fetches of source ns for a key that operation o has in flight, each
\* with the layer that asked.
InFlight(o, ns, key) ==
    {<<l, f>> \in UNION {{<<x, y>> : y \in ops[o].ch[x].fly} : x \in Layers} :
        Reqs(l)[f.k].ns = ns /\ f.key = key}

\* C37: within one applyState the layers that ask the same source with the
\* same key cause at most one fetch for that key: no two fetches of one
\* operation for one source and key are in flight together.
C37_OneFetchPerKey ==
    \A o \in OpIds, ns \in Sources :
        \A l \in Layers : \A f \in ops[o].ch[l].fly :
            Cardinality(InFlight(o, ns, f.key)) <= 1

\* A layer whose source is asked after the fetch of another layer of the
\* same applyState for the same key was answered is served from the cache.
C37_ServedAfterTheAnswer ==
    [][\A o \in OpIds, l \in Layers :
           (/\ last'.call.ns # ""
            /\ ops'[o].ch[l].fly # ops[o].ch[l].fly
            /\ ops'[o].ch[l].fly \ ops[o].ch[l].fly # {})
           => \A f \in ops'[o].ch[l].fly \ ops[o].ch[l].fly :
                  ~(cache[last'.call.ns].has /\ cache[last'.call.ns].key = f.key
                    /\ cache[last'.call.ns].resp.good)]_vars


(***************************************************************************)
(* Claims about responses without records (SpecFields).                    *)
(***************************************************************************)
\* A response without records was parsed: an empty array of records, or an
\* object whose arrays are empty and that has an array for every field asked
\* for.
ZeroRecords ==
    /\ lzd.phase \in {"resolved", "rejected"}
    /\ IF lzd.response.arrays
       THEN /\ lzd.response.n = 0
            /\ \A j \in DOMAIN lzd.specs :
                   lzd.specs[j].field \in Range(lzd.response.keys)
       ELSE lzd.response.rows = <<>>

\* C38: a successful response without records, as an array of records or as
\* an object of arrays, is parsed to an empty body and raises no error.
C38_ZeroRecordsParse ==
    ZeroRecords => lzd.phase = "resolved" /\ lzd.records = <<>>

\* The same for an object of two or more empty arrays.
C38_EmptyArraysParse ==
    ZeroRecords /\ lzd.response.arrays /\ Len(lzd.response.keys) >= 2
        => lzd.phase = "resolved" /\ lzd.records = <<>>

\* An empty array of records is never parsed without an error.
C38_EmptyArrayRejected ==
    ZeroRecords /\ ~lzd.response.arrays => lzd.phase = "rejected"


(***************************************************************************)
(* Claims about the events of an update (SpecData).                        *)
(***************************************************************************)
\* The step emits the event.
Emitted(who, event) ==
    \E i \in DOMAIN last'.emitted : last'.emitted[i] = Emits(who, event)

\* An applyState starts with the plot's data_requested, then every panel's,
\* and none of its layers has asked a source when the handler returns.
RequestedBeforeFetches ==
    \A o \in OpIds :
        ~ops[o].active /\ ops'[o].active =>
            /\ last'.emitted # <<>>
            /\ Head(last'.emitted) = Emits("plot", "data_requested")
            /\ \A p \in PanelsOf(World) : Emitted(p, "data_requested")
            /\ \A l \in Layers : ops'[o].ch[l].asked = {} /\ ops'[o].ch[l].fly = {}

\* A panel emits data_rendered in the step in which the last of its layers
\* got its data, after rendering.
PanelRenderedAfterItsLayers ==
    \A p \in Panels :
        Emitted(p, "data_rendered") =>
            /\ last'.ended.how = "ok" /\ PanelOf(last'.ended.layer) = p
            /\ panels'[p].x_extent # <<>>
            /\ \E o \in OpIds :
                   /\ ops[o].pst[p] = "pending"
                   /\ \A l \in data_layers(World, p) :
                          l = last'.ended.layer \/ ops[o].ch[l].phase = "ok"

\* The plot emits data_rendered when every panel of its applyState has
\* rendered.
PlotRenderedAfterItsPanels ==
    Emitted("plot", "data_rendered") => last'.rendered = PanelsOf(World)

\* C39: for each applyState the plot emits data_requested before a panel
\* asks a source and data_rendered only after every panel's resolution has
\* settled and the panels have rendered; each panel emits data_requested
\* before its layers ask and data_rendered only after all its layers got
\* their data and it rendered.
C39_EventsAroundTheUpdate ==
    [][/\ RequestedBeforeFetches
       /\ PanelRenderedAfterItsLayers
       /\ PlotRenderedAfterItsPanels]_vars

\* The same without the plot's data_rendered.
C39_EventsButPlotRendered ==
    [][RequestedBeforeFetches /\ PanelRenderedAfterItsLayers]_vars

\* The plot emits data_rendered when the promise of every panel of its
\* applyState is fulfilled, whether the panel rendered or failed.
C39_PlotRenderedAfterPanelsSettled ==
    [][Emitted("plot", "data_rendered") =>
           last'.rendered \cup last'.failed = PanelsOf(World)]_vars


(***************************************************************************)
(* Claims about the list of a status (SpecStatus).                         *)
(***************************************************************************)
\* The event at hand turned its element's status on under toggle_exclusive.
TurnedOnExclusive == selection.directive = "toggle_exclusive" /\ selection.on

\* No id is twice in the list.
NoIdTwice ==
    \A i, j \in DOMAIN selection.list :
        selection.list[i] = selection.list[j] => i = j

\* C40: after a toggle_exclusive behaviour has turned an element's status
\* on, that element is the only member of the layer's list of the status,
\* and no id is ever twice in a list.
C40_ExclusiveIsAlone ==
    /\ NoIdTwice
    /\ TurnedOnExclusive => selection.list = <<selection.element>>

\* After a toggle_exclusive behaviour has turned an element's status on,
\* that element is the only drawn member of the list, the members that are
\* not drawn are those of before, and no id is ever twice in a list.
C40_ExclusiveAmongDrawn ==
    /\ NoIdTwice
    /\ TurnedOnExclusive =>
           /\ Range(selection.list) \cap selection.drawn = {selection.element}
           /\ Range(selection.list) \ selection.drawn
                  = Range(selection.before) \ selection.drawn

====
